---- MODULE Spec2Model ----
(***************************************************************************)
(* miniGit: the content-addressed object store, the index, the references  *)
(* and the commands that change them, as a state machine over the files    *)
(* the program keeps under .minigit and in the working directory.          *)
(*                                                                         *)
(* Every std::string of the program is a sequence of bytes.  A byte is a   *)
(* record [c, h]: a plain run of characters has its text in c and h empty; *)
(* the 40 hexadecimal characters SHA-1 renders have c = "#" and carry in h *)
(* the bytes that were hashed, which makes the hash a function without     *)
(* collisions that differs from the bytes it hashes.                       *)
(***************************************************************************)
EXTENDS Integers, Sequences, FiniteSets, TLC

VARIABLES
    repo,     \* TRUE when the directory .minigit exists
    heads,    \* TRUE when the directory .minigit/refs/heads exists
    head,     \* the file .minigit/HEAD: <<>> when absent, else <<bytes>>
    refs,     \* the files of .minigit/refs/heads: branch name -> bytes
    index,    \* the file .minigit/index: <<>> when absent, else <<bytes>>
    objects,  \* the files of .minigit/objects: digest -> bytes
    work,     \* the regular files of the working directory: path -> bytes
    stash,    \* the files of .minigit/stash: identifier -> bytes
    stashDir, \* TRUE when the directory .minigit/stash exists
    now,      \* the clock, in seconds since the epoch
    procs,    \* the commands that are running: where each one stands
    trees     \* the Merkle trees a process holds in memory, as it built them

vars == <<repo, heads, head, refs, index, objects, work, stash, stashDir, now,
          procs, trees>>

(***************************************************************************)
(* Bytes and strings                                                       *)
(***************************************************************************)
Ch(s) == [c |-> s, h |-> <<>>]
Str(s) == <<Ch(s)>>
NUL == Ch("NUL")
SP == Ch(" ")
NL == Ch("\n")
Empty == <<>>

IsSpace(b) == b = SP \/ b = NL

\* the number of characters a byte record stands for
Width(b) == IF b.c = "#" THEN 40 ELSE IF b = NUL THEN 1 ELSE Len(b.c)

RECURSIVE length(_)
length(s) == IF s = <<>> THEN 0 ELSE Width(Head(s)) + length(Tail(s))

\* std::to_string of a number that is not negative: its decimal digits
DigitChars == <<"0", "1", "2", "3", "4", "5", "6", "7", "8", "9">>

RECURSIVE to_string(_)
to_string(n) ==
    IF n < 10 THEN Str(DigitChars[n + 1])
    ELSE to_string(n \div 10) \o Str(DigitChars[(n % 10) + 1])

\* s.find(b): the first position of byte b in s, 0 when there is none (npos)
RECURSIVE FindFrom(_, _, _)
FindFrom(s, b, i) ==
    IF i > Len(s) THEN 0
    ELSE IF s[i] = b THEN i
    ELSE FindFrom(s, b, i + 1)

find(s, b) == FindFrom(s, b, 1)

\* s.substr(i) with positions counted from 1
substr(s, i) == SubSeq(s, i, Len(s))

\* s.rfind(prefix, 0) == 0
StartsWith(s, prefix) ==
    /\ Len(s) >= Len(prefix)
    /\ SubSeq(s, 1, Len(prefix)) = prefix

\* the lines std::getline(stream, line) yields, one after the other
RECURSIVE getlines(_)
getlines(s) ==
    IF s = <<>> THEN <<>>
    ELSE LET n == find(s, NL) IN
         IF n = 0 THEN <<s>>
         ELSE <<SubSeq(s, 1, n - 1)>> \o getlines(substr(s, n + 1))

\* the first line std::getline yields, "" on an empty or absent file
getline(s) == IF getlines(s) = <<>> THEN Empty ELSE Head(getlines(s))

\* the words successive  stream >> word  extractions yield
RECURSIVE SkipSpace(_)
SkipSpace(s) ==
    IF s # <<>> /\ IsSpace(Head(s)) THEN SkipSpace(Tail(s)) ELSE s

RECURSIVE WordLen(_)
WordLen(s) ==
    IF s = <<>> \/ IsSpace(Head(s)) THEN 0 ELSE 1 + WordLen(Tail(s))

\* the n-th of the words ws, "" when the stream ran out before it
word(ws, n) == IF n <= Len(ws) THEN ws[n] ELSE Empty

\* the first n words of a line; the extractions stop there
RECURSIVE firstWords(_, _)
firstWords(s, n) ==
    LET t == SkipSpace(s)
        k == WordLen(t)
    IN IF n = 0 \/ t = <<>> THEN <<>>
       ELSE <<SubSeq(t, 1, k)>> \o firstWords(substr(t, k + 1), n - 1)

\* operator< of std::string on the strings that key a std::map
ByteOrder == <<"\n", " ", "#", ".", "/", "0", "1", "2", "3", "4", "5", "6", "7",
               "8", "9", ":", ";", "a", "b", "c", "d", "m", "x", "y", "z">>

RankOf == [s \in {ByteOrder[i] : i \in DOMAIN ByteOrder} |->
              CHOOSE i \in DOMAIN ByteOrder : ByteOrder[i] = s]

Rank(b) == IF b.c \in DOMAIN RankOf THEN RankOf[b.c] ELSE Len(ByteOrder) + 1

RECURSIVE Less(_, _)
Less(s, t) ==
    IF t = <<>> THEN FALSE
    ELSE IF s = <<>> THEN TRUE
    ELSE IF Head(s) = Head(t) THEN Less(Tail(s), Tail(t))
    ELSE Rank(Head(s)) < Rank(Head(t))

\* the keys of a std::map in the order its iteration visits them
RECURSIVE Sorted(_)
Sorted(keys) ==
    IF keys = {} THEN <<>>
    ELSE LET k == CHOOSE x \in keys : \A y \in keys \ {x} : Less(x, y)
         IN <<k>> \o Sorted(keys \ {k})

\* m[k] = v of a std::map
Put(m, k, v) == (k :> v) @@ m

Remove(m, ks) == [k \in DOMAIN m \ ks |-> m[k]]

NoMap == [k \in {} |-> Empty]

(***************************************************************************)
(* The files of one directory tree, as the commands see them.  A command   *)
(* is a function from this record to this record; ret is what the call     *)
(* that ran last returned, writes lists the object files it opened for     *)
(* writing, faults tells how the writes of object files still to come end: *)
(* the first for the next write, and so on; a write that has none succeeds.*)
(***************************************************************************)
Disk == [repo |-> repo, heads |-> heads, head |-> head, refs |-> refs,
         index |-> index, objects |-> objects, work |-> work,
         stash |-> stash, stashDir |-> stashDir,
         ret |-> Empty, writes |-> <<>>, faults |-> <<>>]

NoFile == <<>>
File(bytes) == <<bytes>>
\* what reading a file through an ifstream yields: nothing when it is absent
Slurp(f) == IF f = NoFile THEN Empty ELSE f[1]

(***************************************************************************)
(* objects.cpp                                                             *)
(***************************************************************************)
calculateHash(content) == <<[c |-> "#", h |-> <<content>>]>>

\* A plausible slip: the digest is taken over the payload, not the header.
writeObjectPayloadKey(S, content) ==
    LET hash == calculateHash(substr(content, find(content, NUL) + 1)) IN
    [S EXCEPT !.repo = TRUE,
              !.objects = Put(S.objects, hash, content),
              !.writes = Append(S.writes,
                                [key |-> hash, existed |-> hash \in DOMAIN S.objects]),
              !.ret = hash]

\* A plausible slip: a second write of a key appends to the file.
writeObjectAppend(S, content) ==
    LET hash == calculateHash(content) IN
    [S EXCEPT !.repo = TRUE,
              !.objects = Put(S.objects, hash,
                              IF hash \in DOMAIN S.objects
                              THEN S.objects[hash] \o content ELSE content),
              !.writes = Append(S.writes,
                                [key |-> hash, existed |-> hash \in DOMAIN S.objects]),
              !.ret = hash]

\* how the next write of an object file ends: "ok"; "throw", when
\* create_directories throws, which writeObject catches; "silent", when the
\* ofstream cannot open or write the file, which nothing looks at
Outcome(S) == IF S.faults = <<>> THEN "ok" ELSE Head(S.faults)

RestFaults(S) == IF S.faults = <<>> THEN <<>> ELSE Tail(S.faults)

\* create_directories makes .minigit/objects/xx (and so .minigit); the
\* ofstream truncates or creates the object file and the content goes in.
writeObject(S, content) ==
    LET hash == calculateHash(content) IN
    IF Outcome(S) = "throw"
    THEN [S EXCEPT !.faults = RestFaults(S), !.ret = Empty]
    ELSE IF Outcome(S) = "silent"
    THEN [S EXCEPT !.faults = RestFaults(S), !.repo = TRUE, !.ret = hash]
    ELSE [S EXCEPT !.faults = RestFaults(S),
                   !.repo = TRUE,
                   !.objects = Put(S.objects, hash, content),
                   !.writes = Append(S.writes,
                                     [key |-> hash,
                                      existed |-> hash \in DOMAIN S.objects]),
                   !.ret = hash]

readObject(S, hash) ==
    IF hash \in DOMAIN S.objects THEN S.objects[hash] ELSE Empty

\* raw_content.substr(raw_content.find('\0') + 1): the bytes after the first
\* NUL of an object file, all of them when it holds none
Payload(raw_content) == substr(raw_content, find(raw_content, NUL) + 1)

\* A plausible slip: the NUL that ends the blob header is left out.
BlobBytesNoSeparator(content) ==
    <<Ch("blob"), SP>> \o to_string(length(content)) \o content

BlobBytes(content) ==
    <<Ch("blob"), SP>> \o to_string(length(content)) \o <<NUL>> \o content

\* the bytes an ifstream reads at a path of the working directory
FileContent(S, filepath) ==
    IF filepath \in DOMAIN S.work THEN S.work[filepath] ELSE Empty

hashObject(S, filepath) == writeObject(S, BlobBytes(FileContent(S, filepath)))

readBlobContent(S, hash) ==
    LET raw_content == readObject(S, hash)
        null_pos == find(raw_content, NUL)
    IN IF raw_content = Empty THEN Empty
       ELSE IF null_pos = 0 THEN Empty
       ELSE substr(raw_content, null_pos + 1)

(***************************************************************************)
(* index.cpp.  cache is the pair g_cache_loaded, g_index_cache of the      *)
(* process that runs the command; every command starts a fresh process.    *)
(***************************************************************************)
FreshCache == [loaded |-> FALSE, map |-> NoMap]

IndexEntry(mode, hash) == [mode |-> mode, hash |-> hash]

\* index[filepath] = {mode, hash} for every line, in file order
RECURSIVE ParseIndexLines(_, _)
ParseIndexLines(lines, map) ==
    IF lines = <<>> THEN map
    ELSE LET ws == firstWords(Head(lines), 3) IN
         ParseIndexLines(Tail(lines),
             Put(map, word(ws, 3), IndexEntry(word(ws, 1), word(ws, 2))))

\* the cache after readIndex(); the map it returns is the cache's map
readIndex(S, cache) ==
    IF cache.loaded THEN cache
    ELSE IF S.index = NoFile THEN [loaded |-> TRUE, map |-> NoMap]
    ELSE [loaded |-> TRUE, map |-> ParseIndexLines(getlines(S.index[1]), NoMap)]

RECURSIVE IndexLines(_, _)
IndexLines(map, keys) ==
    IF keys = <<>> THEN <<>>
    ELSE map[Head(keys)].mode \o <<SP>> \o map[Head(keys)].hash \o <<SP>>
         \o Head(keys) \o <<NL>> \o IndexLines(map, Tail(keys))

IndexBytes(map) == IndexLines(map, Sorted(DOMAIN map))

\* the ofstream creates or truncates .minigit/index when .minigit exists
writeIndex(S, map) ==
    IF S.repo THEN [S EXCEPT !.index = File(IndexBytes(map))] ELSE S

CacheOf(map) == [loaded |-> TRUE, map |-> map]

Mode644 == Str("100644")

\* One process: the files it works on and its g_cache_loaded, g_index_cache.
Process(S) == [disk |-> S, cache |-> FreshCache]

\* a call of readIndex(); what it returns is the map of the cache it leaves
ReadCall(P) == [P EXCEPT !.cache = readIndex(P.disk, P.cache)]

\* a call of writeIndex(map): the cache is set whatever became of the file
WriteCall(P, map) == [disk |-> writeIndex(P.disk, map), cache |-> CacheOf(map)]

addToIndex(P, filepath) ==
    IF filepath \notin DOMAIN P.disk.work THEN P
    ELSE LET idx == readIndex(P.disk, P.cache).map
             S1 == hashObject(P.disk, filepath)
         IN WriteCall([P EXCEPT !.disk = S1],
                      Put(idx, filepath, IndexEntry(Mode644, S1.ret)))

\* the ofstream creates or truncates .minigit/index when .minigit exists
clearIndex(P) ==
    [disk |-> IF P.disk.repo THEN [P.disk EXCEPT !.index = File(Empty)] ELSE P.disk,
     cache |-> CacheOf(NoMap)]

RECURSIVE TreeLines(_, _)
TreeLines(map, keys) ==
    IF keys = <<>> THEN <<>>
    ELSE map[Head(keys)].mode \o <<SP, Ch("blob"), SP>> \o map[Head(keys)].hash
         \o <<SP>> \o Head(keys) \o <<NL>> \o TreeLines(map, Tail(keys))

TreeBytes(map) ==
    LET tree_str == TreeLines(map, Sorted(DOMAIN map)) IN
    <<Ch("tree"), SP>> \o to_string(length(tree_str)) \o <<NUL>> \o tree_str

\* A plausible slip: the tree is written before the index is read.
writeTreeUnread(S, cache) == writeObject(S, TreeBytes(cache.map))

writeTree(S, cache) == writeObject(S, TreeBytes(readIndex(S, cache).map))

\* seconds since the epoch, as chrono::system_clock gives them at time t
author_line(t) ==
    <<Ch("Your"), SP, Ch("Name"), SP, Ch("<you@example.com>"), SP>>
    \o to_string(t) \o <<SP, Ch("+0000")>>

CommitBytes(parents, tree_hash, message, t) ==
    LET commit_str ==
            <<Ch("tree"), SP>> \o tree_hash \o <<NL>>
            \o parents
            \o <<Ch("author"), SP>> \o author_line(t) \o <<NL>>
            \o <<Ch("committer"), SP>> \o author_line(t) \o <<NL>>
            \o <<NL>> \o message \o <<NL>>
    IN <<Ch("commit"), SP>> \o to_string(length(commit_str)) \o <<NUL>> \o commit_str

ParentLine(hash) == <<Ch("parent"), SP>> \o hash \o <<NL>>

\* A plausible slip: the parent line is never written.
writeCommitNoParent(S, tree_hash, parent_hash, message, t) ==
    writeObject(S, CommitBytes(<<>>, tree_hash, message, t))

writeCommit(S, tree_hash, parent_hash, message, t) ==
    writeObject(S, CommitBytes(IF parent_hash # Empty THEN ParentLine(parent_hash)
                               ELSE <<>>,
                               tree_hash, message, t))

\* the header lines of a commit: those before the first empty line
RECURSIVE HeaderLines(_)
HeaderLines(lines) ==
    IF lines = <<>> \/ Head(lines) = Empty THEN <<>>
    ELSE <<Head(lines)>> \o HeaderLines(Tail(lines))

\* line_stream >> commit.tree / commit.parent: every such line overwrites
\* the field, so the last one read stays; an extraction that finds no word
\* fails and leaves the field as it was.  author, committer and message
\* are parsed too but only ever printed; they are left out.
RECURSIVE ParseCommitLines(_, _)
ParseCommitLines(lines, commit) ==
    IF lines = <<>> THEN commit
    ELSE LET ws == firstWords(Head(lines), 2)
             key == word(ws, 1)
             val == word(ws, 2)
         IN ParseCommitLines(Tail(lines),
                IF Len(ws) < 2 THEN commit
                ELSE IF key = Str("tree") THEN [commit EXCEPT !.tree = val]
                ELSE IF key = Str("parent") THEN [commit EXCEPT !.parent = val]
                ELSE commit)

NoCommit == [tree |-> Empty, parent |-> Empty]

readCommit(S, hash) ==
    LET raw_content == readObject(S, hash)
        null_pos == find(raw_content, NUL)
    IN IF raw_content = Empty THEN NoCommit
       ELSE IF null_pos = 0 THEN NoCommit
       ELSE ParseCommitLines(HeaderLines(getlines(substr(raw_content, null_pos + 1))),
                             NoCommit)

\* every parent a commit names, in the order of its header lines
RECURSIVE ParentWords(_)
ParentWords(lines) ==
    IF lines = <<>> THEN <<>>
    ELSE LET ws == firstWords(Head(lines), 2) IN
         (IF word(ws, 1) = Str("parent") THEN <<word(ws, 2)>> ELSE <<>>)
         \o ParentWords(Tail(lines))

Parents(S, hash) ==
    ParentWords(HeaderLines(getlines(Payload(readObject(S, hash)))))

(***************************************************************************)
(* utils.cpp                                                               *)
(***************************************************************************)
\* files[filepath] = file_hash for every line, in file order
RECURSIVE ParseTreeLines(_, _)
ParseTreeLines(lines, files) ==
    IF lines = <<>> THEN files
    ELSE LET ws == firstWords(Head(lines), 4) IN
         ParseTreeLines(Tail(lines), Put(files, word(ws, 4), word(ws, 3)))

readTreeToMap(S, hash) ==
    LET raw_content == readObject(S, hash)
        null_pos == find(raw_content, NUL)
    IN IF raw_content = Empty THEN NoMap
       ELSE IF null_pos = 0 THEN NoMap
       ELSE ParseTreeLines(getlines(substr(raw_content, null_pos + 1)), NoMap)

(***************************************************************************)
(* repository.cpp                                                          *)
(***************************************************************************)
HeadsPrefix == Str("refs/heads/")
RefPrefix == <<Ch("ref:"), SP>>

\* the branch a path below .minigit names when it is a file of refs/heads
IsBranchPath(S, ref) ==
    /\ StartsWith(ref, HeadsPrefix)
    /\ substr(ref, Len(HeadsPrefix) + 1) \in DOMAIN S.refs

\* A plausible slip: the directory is set up again when it exists.
initRepositoryAnew(S) ==
    [S EXCEPT !.repo = TRUE, !.heads = TRUE,
              !.head = File(RefPrefix \o HeadsPrefix \o Str("main") \o <<NL>>)]

initRepository(S) ==
    IF S.repo THEN S
    ELSE [S EXCEPT !.repo = TRUE, !.heads = TRUE,
                   !.head = File(RefPrefix \o HeadsPrefix \o Str("main") \o <<NL>>)]

getRefHash(S, ref) ==
    IF ref = Empty THEN Empty
    ELSE IF ~IsBranchPath(S, ref) THEN Empty
    ELSE getline(S.refs[substr(ref, Len(HeadsPrefix) + 1)])

getCurrentBranch(S) ==
    LET head_content == getline(Slurp(S.head)) IN
    IF S.head = NoFile THEN Empty
    ELSE IF StartsWith(head_content, RefPrefix \o HeadsPrefix)
         THEN substr(head_content, Len(RefPrefix \o HeadsPrefix) + 1)
    ELSE Empty

isDetachedHead(S) ==
    IF S.head = NoFile THEN FALSE
    ELSE ~StartsWith(getline(Slurp(S.head)), RefPrefix)

\* A plausible slip: only a HEAD that names a ref resolves to a commit.
getHeadCommitOfRef(S) ==
    LET head_content == getline(Slurp(S.head)) IN
    IF S.head = NoFile THEN Empty
    ELSE IF StartsWith(head_content, RefPrefix)
         THEN getRefHash(S, substr(head_content, Len(RefPrefix) + 1))
    ELSE Empty

getHeadCommit(S) ==
    LET head_content == getline(Slurp(S.head)) IN
    IF S.head = NoFile THEN Empty
    ELSE IF StartsWith(head_content, RefPrefix)
         THEN getRefHash(S, substr(head_content, Len(RefPrefix) + 1))
    ELSE head_content

getHeadTreeHash(S) ==
    LET commit_hash == getHeadCommit(S) IN
    IF commit_hash = Empty THEN Empty ELSE readCommit(S, commit_hash).tree

repositoryHasChanges(S) ==
    LET head_tree == getHeadTreeHash(S)
        idx == readIndex(S, FreshCache).map
        head_files == readTreeToMap(S, head_tree)
    IN IF head_tree = Empty THEN idx # NoMap
       ELSE IF Cardinality(DOMAIN idx) # Cardinality(DOMAIN head_files) THEN TRUE
       ELSE \E filepath \in DOMAIN idx :
                \/ filepath \notin DOMAIN head_files
                \/ head_files[filepath] # idx[filepath].hash

\* A plausible slip: the commits are compared, not their trees.
branchesIdenticalByCommit(S, branch1, branch2) ==
    LET tip1 == getRefHash(S, HeadsPrefix \o branch1)
        tip2 == getRefHash(S, HeadsPrefix \o branch2)
    IN IF tip1 = Empty \/ tip2 = Empty THEN FALSE
       ELSE tip1 = tip2

getBranchMerkleRoot(S, branch_name) ==
    LET commit_hash == getRefHash(S, HeadsPrefix \o branch_name) IN
    IF commit_hash = Empty THEN Empty
    ELSE readCommit(S, commit_hash).tree

branchesIdentical(S, branch1, branch2) ==
    LET root1 == getBranchMerkleRoot(S, branch1)
        root2 == getBranchMerkleRoot(S, branch2)
    IN IF root1 = Empty \/ root2 = Empty THEN FALSE
       ELSE root1 = root2

(***************************************************************************)
(* commands.cpp                                                            *)
(***************************************************************************)
\* hash.substr(2) throws std::out_of_range on a string shorter than two
\* characters; nothing catches it and the process ends where it stands.
Throws(hash) == length(hash) < 2

\* the directory separator inside a name
Slash == Ch("/")

HasSlash(name) == \E i \in DOMAIN name : name[i] = Slash

\* ofstream(".minigit/" + ref_path) << bytes: the file appears only when
\* its directory exists; nothing creates a directory below refs/heads, and
\* the stream's failure is not looked at
WriteRefFile(S, ref_path, bytes) ==
    LET name == substr(ref_path, Len(HeadsPrefix) + 1) IN
    IF S.heads /\ StartsWith(ref_path, HeadsPrefix)
               /\ name # Empty /\ ~HasSlash(name)
    THEN [S EXCEPT !.refs = Put(S.refs, name, bytes)]
    ELSE S

WriteHeadFile(S, bytes) == IF S.repo THEN [S EXCEPT !.head = File(bytes)] ELSE S

handleInit(S) == initRepository(S)

handleAdd(S, filePath) ==
    IF filePath \notin DOMAIN S.work THEN S
    ELSE LET S1 == hashObject(S, filePath)
             idx == readIndex(S1, FreshCache).map
         IN writeIndex(S1, Put(idx, filePath, IndexEntry(Mode644, S1.ret)))

handleCommit(S, message, t) ==
    LET S1 == writeTree(S, FreshCache)
        tree_hash == S1.ret
        parent_hash == getHeadCommit(S1)
        S2 == writeCommit(S1, tree_hash, parent_hash, message, t)
        commit_hash == S2.ret
        head_content == getline(Slurp(S2.head))
    IN IF tree_hash = Empty THEN S1
       ELSE IF commit_hash = Empty THEN S2
       ELSE IF S2.head = NoFile THEN [S2 EXCEPT !.ret = Empty]
       ELSE IF StartsWith(head_content, RefPrefix)
            THEN WriteRefFile(S2, substr(head_content, Len(RefPrefix) + 1),
                              commit_hash \o <<NL>>)
       ELSE WriteHeadFile(S2, commit_hash \o <<NL>>)

(***************************************************************************)
(* branch.cpp                                                              *)
(***************************************************************************)
\* fs::exists(".minigit/refs/heads/" + name): a branch file, or the
\* directory itself when the name is empty
BranchPathExists(S, name) ==
    \/ name \in DOMAIN S.refs
    \/ name = Empty /\ S.heads

handleBranch(S, branch_name) ==
    LET current_commit == getHeadCommit(S) IN
    IF BranchPathExists(S, branch_name) THEN S
    ELSE IF current_commit = Empty THEN S
    ELSE [WriteRefFile(S, HeadsPrefix \o branch_name, current_commit \o <<NL>>)
             EXCEPT !.ret = current_commit]

\* the path is a directory of the working directory: a file lies below it
IsDirectory(S, filepath) ==
    \E q \in DOMAIN S.work : StartsWith(q, filepath \o <<Slash>>)

\* a regular file stands where the path needs a directory
BelowFile(S, filepath) ==
    \E q \in DOMAIN S.work : StartsWith(filepath, q \o <<Slash>>)

\* fs::remove(filepath) of a directory that is not empty throws, and nothing
\* catches it
RemoveThrows(S, idx) == \E p \in DOMAIN idx : IsDirectory(S, p)

\* fs::remove of every path of the index that exists in the working
\* directory, in the order of the map, as far as the first that throws
RemoveTracked(S, idx) ==
    [S EXCEPT !.work = Remove(S.work,
        {p \in DOMAIN idx :
            \A q \in DOMAIN idx : IsDirectory(S, q) => Less(p, q)})]

\* ofstream(filepath) << content: the stream fails to open, unnoticed, when
\* the path is a directory or lies below a regular file
WriteWorkFile(S, filepath, content) ==
    IF IsDirectory(S, filepath) \/ BelowFile(S, filepath) THEN S
    ELSE [S EXCEPT !.work = Put(S.work, filepath, content)]

\* One pass of the loop that writes the files of a tree, in the order the
\* map iterates.  L holds the disk and whether hash.substr(2), fs::remove or
\* fs::create_directories (a regular file stands on the parent path) has
\* thrown, which ends the process with the files written so far.
SwitchFile(L, filepath, hash) ==
    IF L.thrown THEN L
    ELSE IF Throws(hash) THEN [L EXCEPT !.thrown = TRUE]
    ELSE IF hash \notin DOMAIN L.disk.objects THEN L
    ELSE IF BelowFile(L.disk, filepath) THEN [L EXCEPT !.thrown = TRUE]
    ELSE [L EXCEPT !.disk = WriteWorkFile(L.disk, filepath,
                                          Payload(L.disk.objects[hash]))]

RECURSIVE SwitchFiles(_, _, _)
SwitchFiles(L, files, keys) ==
    IF keys = <<>> THEN L
    ELSE SwitchFiles(SwitchFile(L, Head(keys), files[Head(keys)]), files, Tail(keys))

NewIndex(files) == [f \in DOMAIN files |-> IndexEntry(Mode644, files[f])]

handleSwitch(S, branch_name) ==
    IF branch_name \notin DOMAIN S.refs THEN S
    ELSE LET branch_commit == getline(S.refs[branch_name])
             commit == readCommit(S, branch_commit)
             files == readTreeToMap(S, commit.tree)
             idx == readIndex(S, FreshCache).map
             L == SwitchFiles([disk |-> RemoveTracked(S, idx), thrown |-> RemoveThrows(S, idx)],
                              files, Sorted(DOMAIN files))
             S2 == WriteHeadFile(L.disk,
                                 RefPrefix \o HeadsPrefix \o branch_name \o <<NL>>)
         IN IF branch_commit = Empty THEN S
            ELSE IF Throws(branch_commit) THEN S
            ELSE IF commit.tree = Empty THEN S
            ELSE IF Throws(commit.tree) THEN S
            ELSE IF L.thrown THEN L.disk
            ELSE [writeIndex(S2, NewIndex(files)) EXCEPT !.ret = branch_commit]

\* handleCheckout's loop differs: an absent object file reads as nothing and
\* the file is written empty
CheckoutFile(L, filepath, hash) ==
    IF L.thrown THEN L
    ELSE IF Throws(hash) THEN [L EXCEPT !.thrown = TRUE]
    ELSE IF BelowFile(L.disk, filepath) THEN [L EXCEPT !.thrown = TRUE]
    ELSE [L EXCEPT !.disk = WriteWorkFile(L.disk, filepath,
                                          Payload(readObject(L.disk, hash)))]

\* A plausible slip: the files of the tree are not written back.
CheckoutNoFiles(L, files, keys) == L

RECURSIVE CheckoutFiles(_, _, _)
CheckoutFiles(L, files, keys) ==
    IF keys = <<>> THEN L
    ELSE CheckoutFiles(CheckoutFile(L, Head(keys), files[Head(keys)]), files,
                       Tail(keys))

\* A plausible slip: HEAD always receives the digest.
CheckoutHeadDigest(is_branch, target, commit_hash) == commit_hash \o <<NL>>

\* what handleCheckout writes to .minigit/HEAD
CheckoutHead(is_branch, target, commit_hash) ==
    IF is_branch THEN RefPrefix \o HeadsPrefix \o target \o <<NL>>
    ELSE commit_hash \o <<NL>>

handleCheckout(S, target) ==
    LET is_branch == BranchPathExists(S, target)
        commit_hash == IF is_branch
                       THEN (IF target \in DOMAIN S.refs
                             THEN getline(S.refs[target]) ELSE Empty)
                       ELSE target
        commit == readCommit(S, commit_hash)
        files == readTreeToMap(S, commit.tree)
        idx == readIndex(S, FreshCache).map
        L == CheckoutFiles([disk |-> RemoveTracked(S, idx), thrown |-> RemoveThrows(S, idx)],
                           files, Sorted(DOMAIN files))
        S2 == writeIndex(L.disk, NewIndex(files))
    IN IF Throws(commit_hash) THEN S
       ELSE IF commit.tree = Empty THEN S
       ELSE IF Throws(commit.tree) THEN S
       ELSE IF L.thrown THEN L.disk
       ELSE [WriteHeadFile(S2, CheckoutHead(is_branch, target, commit_hash))
                EXCEPT !.ret = commit_hash]

\* A plausible slip: the newline is added whatever the content ends with.
WithNewlineAlways(content) == content \o <<NL>>

\* content followed by "\n" unless it is empty or ends with one already
WithNewline(content) ==
    IF content # Empty /\ content[Len(content)] # NL
    THEN content \o <<NL>> ELSE content

ConflictContent(current_branch, current_content, branch_to_merge, merge_content) ==
    <<Ch("<<<<<<<"), SP>> \o current_branch \o <<NL>>
    \o WithNewline(current_content)
    \o <<Ch("======="), NL>>
    \o WithNewline(merge_content)
    \o <<Ch(">>>>>>>"), SP>> \o branch_to_merge \o <<NL>>

\* one pass of handleMerge's loop over all_files; M holds the disk, the
\* merged_index and the conflicts collected so far
MergeFile(M, filepath, current_files, merge_files, current_branch, branch_to_merge) ==
    LET in_current == filepath \in DOMAIN current_files
        in_merge == filepath \in DOMAIN merge_files
        S == M.disk
    IN IF in_current /\ in_merge
       THEN IF current_files[filepath] = merge_files[filepath]
            THEN [M EXCEPT !.merged = Put(M.merged, filepath,
                                          IndexEntry(Mode644, current_files[filepath]))]
            ELSE LET S1 == WriteWorkFile(S, filepath,
                               ConflictContent(current_branch,
                                   readBlobContent(S, current_files[filepath]),
                                   branch_to_merge,
                                   readBlobContent(S, merge_files[filepath])))
                     S2 == hashObject(S1, filepath)
                 IN [disk |-> S2,
                     merged |-> Put(M.merged, filepath, IndexEntry(Mode644, S2.ret)),
                     conflicts |-> Append(M.conflicts, filepath)]
       ELSE IF in_current
       THEN [M EXCEPT !.merged = Put(M.merged, filepath,
                                     IndexEntry(Mode644, current_files[filepath])),
                      !.disk = IF filepath \in DOMAIN S.work THEN S
                               ELSE WriteWorkFile(S, filepath,
                                        readBlobContent(S, current_files[filepath]))]
       ELSE [M EXCEPT !.merged = Put(M.merged, filepath,
                                     IndexEntry(Mode644, merge_files[filepath])),
                      !.disk = WriteWorkFile(S, filepath,
                                   readBlobContent(S, merge_files[filepath]))]

\* A plausible slip: only the paths of the current snapshot are visited.
AllFilesCurrentOnly(current_files, merge_files) == DOMAIN current_files

\* the set all_files: every path of the current snapshot and of the other
AllFiles(current_files, merge_files) ==
    DOMAIN current_files \cup DOMAIN merge_files

RECURSIVE MergeFiles(_, _, _, _, _, _)
MergeFiles(M, all_files, current_files, merge_files, current_branch, branch_to_merge) ==
    IF all_files = <<>> THEN M
    ELSE MergeFiles(MergeFile(M, Head(all_files), current_files, merge_files,
                              current_branch, branch_to_merge),
                    Tail(all_files), current_files, merge_files,
                    current_branch, branch_to_merge)

MergeMessage(branch_to_merge, current_branch) ==
    <<Ch("Merge"), SP, Ch("branch"), SP, Ch("'")>> \o branch_to_merge
    \o <<Ch("'"), SP, Ch("into"), SP>> \o current_branch

\* A plausible slip: the branch merged in comes first.
MergeParentsSwapped(current_commit, merge_commit) ==
    ParentLine(merge_commit) \o ParentLine(current_commit)

\* the parent lines of the merge commit, in the order they are written
MergeParents(current_commit, merge_commit) ==
    ParentLine(current_commit) \o ParentLine(merge_commit)

\* A plausible slip: the merge commit is made whatever conflicted.
NoConflictsAlways(conflicts) == TRUE

\* A plausible slip: the test is inverted for the empty list.
NoConflictsNever(conflicts) == FALSE

\* conflicts.empty()
NoConflicts(conflicts) == conflicts = <<>>

\* the lines "\t<file>" printed below "Conflicts in:"
RECURSIVE ConflictReport(_)
ConflictReport(conflicts) ==
    IF conflicts = <<>> THEN <<>>
    ELSE <<Ch("\t")>> \o Head(conflicts) \o <<NL>> \o ConflictReport(Tail(conflicts))

\* handleMerge once its preconditions hold: the loop over the files, the
\* index, and the merge commit when nothing conflicted
MergeInto(S, current_branch, current_commit, branch_to_merge, t) ==
    LET merge_commit == getline(S.refs[branch_to_merge])
        current == readCommit(S, current_commit)
        merge == readCommit(S, merge_commit)
        current_files == readTreeToMap(S, current.tree)
        merge_files == readTreeToMap(S, merge.tree)
        M == MergeFiles([disk |-> S, merged |-> NoMap, conflicts |-> <<>>],
                        Sorted(AllFiles(current_files, merge_files)),
                        current_files, merge_files, current_branch, branch_to_merge)
        S1 == writeIndex(M.disk, M.merged)
        S2 == writeTree(S1, CacheOf(M.merged))
        tree_hash == S2.ret
        S3 == writeObject(S2, CommitBytes(MergeParents(current_commit, merge_commit),
                                          tree_hash,
                                          MergeMessage(branch_to_merge, current_branch),
                                          t))
        new_commit_hash == S3.ret
    IN IF Throws(current_commit) \/ Throws(merge_commit) THEN S
       ELSE IF current.tree = Empty \/ merge.tree = Empty THEN S
       ELSE IF Throws(current.tree) \/ Throws(merge.tree) THEN S
       ELSE IF NoConflicts(M.conflicts)
            THEN WriteRefFile(S3, HeadsPrefix \o current_branch, new_commit_hash \o <<NL>>)
       ELSE [S1 EXCEPT !.ret = ConflictReport(M.conflicts)]

\* A plausible slip: the target is looked up before HEAD is examined, and a
\* branch is merged into itself like any other.
handleMergeUnguarded(S, branch_to_merge, t) ==
    LET current_branch == getCurrentBranch(S)
        current_commit == getHeadCommit(S)
    IN IF branch_to_merge \notin DOMAIN S.refs THEN S
       ELSE IF current_commit = Empty THEN S
       ELSE MergeInto(S, current_branch, current_commit, branch_to_merge, t)

handleMerge(S, branch_to_merge, t) ==
    LET current_branch == getCurrentBranch(S)
        current_commit == getHeadCommit(S)
    IN IF current_branch = Empty THEN S
       ELSE IF branch_to_merge = current_branch THEN S
       ELSE IF current_commit = Empty THEN S
       ELSE IF ~BranchPathExists(S, branch_to_merge) THEN S
       ELSE IF branch_to_merge \notin DOMAIN S.refs THEN S
       ELSE MergeInto(S, current_branch, current_commit, branch_to_merge, t)

(***************************************************************************)
(* branch.cpp: stash                                                       *)
(***************************************************************************)
\* fs::create_directory(".minigit/stash") when it is absent; it throws when
\* .minigit is absent too, and the process ends
handleStashSave(S, t) ==
    LET S0 == [S EXCEPT !.stashDir = TRUE]
        idx == readIndex(S0, FreshCache).map
        stash_id == to_string(t)
        S1 == [S0 EXCEPT !.stash = Put(S0.stash, stash_id, IndexBytes(idx))]
        S2 == writeIndex(S1, NoMap)
    IN IF ~S.stashDir /\ ~S.repo THEN S
       ELSE IF idx = NoMap THEN S0
       ELSE [RemoveTracked(S2, idx) EXCEPT !.ret = stash_id]

\* A plausible slip: the smallest file name is taken.
EarliestStash(S) ==
    IF DOMAIN S.stash = {} THEN Empty
    ELSE CHOOSE x \in DOMAIN S.stash : \A y \in DOMAIN S.stash \ {x} : Less(x, y)

\* the greatest file name of the stash directory, "" when it is empty
LatestStash(S) ==
    IF DOMAIN S.stash = {} THEN Empty
    ELSE CHOOSE x \in DOMAIN S.stash : \A y \in DOMAIN S.stash \ {x} : Less(y, x)

\* handleStash pop writes every stashed path with the content of its blob
RestoreFiles(S, stashed_index) ==
    [S EXCEPT !.work = [f \in DOMAIN S.work \cup DOMAIN stashed_index |->
                           IF f \in DOMAIN stashed_index
                           THEN readBlobContent(S, stashed_index[f].hash)
                           ELSE S.work[f]]]

handleStashPop(S) ==
    LET latest_stash == LatestStash(S)
        stashed_index == ParseIndexLines(getlines(S.stash[latest_stash]), NoMap)
        S1 == RestoreFiles(S, stashed_index)
        S2 == writeIndex(S1, stashed_index)
    IN IF ~S.stashDir THEN S
       ELSE IF latest_stash = Empty THEN S
       ELSE [S2 EXCEPT !.stash = Remove(S2.stash, {latest_stash}),
                       !.ret = latest_stash]

(***************************************************************************)
(* repository.cpp: the integrity walk.  std::map::operator[] and the       *)
(* comparisons cannot fail; hash.substr(2) inside readObject throws on a   *)
(* name shorter than two characters and nothing catches it.                *)
(***************************************************************************)
\* the blobs of a tree, each read and hashed: TRUE when none is absent,
\* empty or stored under another digest than that of its bytes
VerifyBlobs(S, files) ==
    \A filepath \in DOMAIN files :
        /\ readObject(S, files[filepath]) # Empty
        /\ calculateHash(readObject(S, files[filepath])) = files[filepath]

\* A plausible slip: the blobs a tree names are not looked at.
verifyCommitTreeOnly(S, commit_hash) ==
    LET commit_content == readObject(S, commit_hash)
        commit == readCommit(S, commit_hash)
        tree_content == readObject(S, commit.tree)
    IN IF commit_hash = Empty THEN TRUE
       ELSE IF commit_content = Empty THEN FALSE
       ELSE IF calculateHash(commit_content) # commit_hash THEN FALSE
       ELSE IF commit.tree = Empty THEN FALSE
       ELSE IF tree_content = Empty THEN FALSE
       ELSE calculateHash(tree_content) = commit.tree

verifyCommit(S, commit_hash) ==
    LET commit_content == readObject(S, commit_hash)
        commit == readCommit(S, commit_hash)
        tree_content == readObject(S, commit.tree)
    IN IF commit_hash = Empty THEN TRUE
       ELSE IF commit_content = Empty THEN FALSE
       ELSE IF calculateHash(commit_content) # commit_hash THEN FALSE
       ELSE IF commit.tree = Empty THEN FALSE
       ELSE IF tree_content = Empty THEN FALSE
       ELSE IF calculateHash(tree_content) # commit.tree THEN FALSE
       ELSE VerifyBlobs(S, readTreeToMap(S, commit.tree))

\* a name handed to readObject by verifyCommit is too short to be split
VerifyThrows(S, commit_hash) ==
    LET commit == readCommit(S, commit_hash)
        files == readTreeToMap(S, commit.tree)
    IN \/ Throws(commit_hash)
       \/ /\ calculateHash(readObject(S, commit_hash)) = commit_hash
          /\ commit.tree # Empty
          /\ \/ Throws(commit.tree)
             \/ /\ calculateHash(readObject(S, commit.tree)) = commit.tree
                /\ \E filepath \in DOMAIN files : Throws(files[filepath])

\* the loop of verifyRepositoryIntegrity from current_hash on; visited lists
\* the commits handed to verifyCommit so far
RECURSIVE VerifyFrom(_, _, _)
VerifyFrom(S, current_hash, visited) ==
    IF current_hash = Empty
    THEN [ok |-> TRUE, thrown |-> FALSE, visited |-> visited]
    ELSE IF VerifyThrows(S, current_hash)
    THEN [ok |-> FALSE, thrown |-> TRUE, visited |-> Append(visited, current_hash)]
    ELSE IF ~verifyCommit(S, current_hash)
    THEN [ok |-> FALSE, thrown |-> FALSE, visited |-> Append(visited, current_hash)]
    ELSE VerifyFrom(S, readCommit(S, current_hash).parent,
                    Append(visited, current_hash))

\* ok is what the function returns; thrown tells that it did not return
verifyRepositoryIntegrity(S) ==
    LET head_commit == getHeadCommit(S) IN
    IF head_commit = Empty
    THEN [ok |-> TRUE, thrown |-> FALSE, visited |-> <<>>]
    ELSE VerifyFrom(S, head_commit, <<>>)

\* commands.cpp, handleLog: the commits printed, from current_hash on
RECURSIVE LogFrom(_, _)
LogFrom(S, current_hash) ==
    IF current_hash = Empty \/ Throws(current_hash) THEN <<>>
    ELSE <<current_hash>> \o LogFrom(S, readCommit(S, current_hash).parent)

handleLog(S) == LogFrom(S, getHeadCommit(S))

(***************************************************************************)
(* The state machine: one action per command line, plus the user writing   *)
(* a file of the working directory.  A run starts in an empty directory.   *)
(***************************************************************************)
MaxCommits == 2

Paths == {Str("a")}
Contents == {Str("x"), <<Ch("y"), NL>>}
BranchNames == {Str("main"), Str("dev"), <<Ch("f"), Slash, Ch("x")>>}
Messages == {Str("m")}
Garbage == Str("z")

IsCommitObject(bytes) == bytes # Empty /\ Head(bytes) = Ch("commit")
Commits(objs) == {k \in DOMAIN objs : IsCommitObject(objs[k])}

\* the runs explored hold at most MaxCommits commit objects
Within(S) == Cardinality(Commits(S.objects)) <= MaxCommits

\* no command is running: each command of the runs below is one step
Idle == [base |-> <<>>, ps |-> <<>>]

\* the files become those of S
Store(S) ==
    /\ repo' = S.repo
    /\ heads' = S.heads
    /\ head' = S.head
    /\ refs' = S.refs
    /\ index' = S.index
    /\ objects' = S.objects
    /\ work' = S.work
    /\ stash' = S.stash
    /\ stashDir' = S.stashDir
    /\ now' = now

\* a command that runs from its first step to its last with nothing between
Apply(S) == Store(S) /\ procs' = procs /\ trees' = trees

Init ==
    /\ repo = FALSE
    /\ heads = FALSE
    /\ head = NoFile
    /\ refs = NoMap
    /\ index = NoFile
    /\ objects = NoMap
    /\ work = NoMap
    /\ stash = NoMap
    /\ stashDir = FALSE
    /\ now = 0
    /\ procs = Idle
    /\ trees = <<>>

\* the user writes a file of the working directory
EditFile ==
    \E p \in Paths, c \in Contents :
        Apply([Disk EXCEPT !.work = Put(work, p, c)])

RunInit == Apply(handleInit(Disk))

Add == \E p \in Paths : Apply(handleAdd(Disk, p))

Commit ==
    \E m \in Messages :
        LET S == handleCommit(Disk, m, now) IN Within(S) /\ Apply(S)

Branch == \E b \in BranchNames : Apply(handleBranch(Disk, b))

Switch == \E b \in BranchNames : Apply(handleSwitch(Disk, b))

Checkout ==
    \E target \in BranchNames \cup DOMAIN objects \cup {Garbage} :
        Apply(handleCheckout(Disk, target))

Merge ==
    \E b \in BranchNames :
        LET S == handleMerge(Disk, b, now) IN Within(S) /\ Apply(S)

StashSave == Apply(handleStashSave(Disk, now))

StashPop == Apply(handleStashPop(Disk))

Next ==
    \/ EditFile
    \/ RunInit
    \/ Add
    \/ Commit
    \/ Branch
    \/ Switch
    \/ Checkout
    \/ Merge

Spec == Init /\ [][Next]_vars

\* the same commands with stash save and stash pop among them
NextStash ==
    \/ EditFile
    \/ RunInit
    \/ Add
    \/ Commit
    \/ Branch
    \/ Switch
    \/ Checkout
    \/ Merge
    \/ StashSave
    \/ StashPop

SpecStash == Init /\ [][NextStash]_vars

(***************************************************************************)
(* The object store                                                        *)
(***************************************************************************)
Kind(bytes) == IF bytes = Empty THEN Empty ELSE <<Head(bytes)>>

Blobs(objs) == {k \in DOMAIN objs : Kind(objs[k]) = Str("blob")}
Trees(objs) == {k \in DOMAIN objs : Kind(objs[k]) = Str("tree")}

\* C1: after any sequence of commands every object file of the store lies
\* under the digest of the whole of its bytes, header included.
C1_ContentAddressed ==
    \A k \in DOMAIN objects : k = calculateHash(objects[k])

\* add, commit and stash save have run: the store holds a blob, a tree and
\* a commit, and a stash file is on disk
C1_Witness ==
    /\ Blobs(objects) # {}
    /\ Trees(objects) # {}
    /\ Commits(objects) # {}
    /\ DOMAIN stash # {}

\* C2: storing the same object twice returns the same digest both times and
\* the second call leaves the store as the first left it: one object file
\* for the content, which the second call does not open for writing.
C2_PutIdempotent ==
    \A p \in DOMAIN work :
        LET S1 == hashObject(Disk, p)
            S2 == hashObject(S1, p)
        IN /\ S2.ret = S1.ret
           /\ S2.objects = S1.objects
           /\ \A i \in (Len(S1.writes) + 1)..Len(S2.writes) : ~S2.writes[i].existed

\* C3: no command removes an object file or changes the bytes of one.
C3_AppendOnly ==
    [][\A k \in DOMAIN objects :
           k \in DOMAIN objects' /\ objects'[k] = objects[k]]_vars

\* two commits carry the same tree: the second commit wrote the tree object
\* over the file the first had written
C3_Witness ==
    \E c1, c2 \in Commits(objects) :
        /\ c1 # c2
        /\ readCommit(Disk, c1).tree = readCommit(Disk, c2).tree
        /\ readCommit(Disk, c1).tree \in DOMAIN objects

(***************************************************************************)
(* Blobs: files of every content up to MaxLen bytes, the NUL byte and the   *)
(* empty file among them, staged one after the other.                      *)
(***************************************************************************)
MaxLen == 2
MaxBlobs == 2

Alphabet == {Ch("x"), NUL}
BlobContents == UNION {[1..n -> Alphabet] : n \in 0..MaxLen}

BlobEdit ==
    \E p \in Paths, c \in BlobContents :
        Apply([Disk EXCEPT !.work = Put(work, p, c)])

BlobAdd ==
    \E p \in Paths :
        LET S == handleAdd(Disk, p) IN
        Cardinality(DOMAIN S.objects) <= MaxBlobs /\ Apply(S)

NextBlob ==
    \/ BlobEdit
    \/ BlobAdd

SpecBlob == Init /\ [][NextBlob]_vars

\* C4: the content read back from the blob that storing a file's content
\* returned is that content, byte for byte, the empty content included.
C4_BlobRoundTrip ==
    /\ \A p \in DOMAIN work :
           LET S1 == hashObject(Disk, p) IN
           readBlobContent(S1, S1.ret) = work[p]
    /\ \A k \in DOMAIN objects :
           k = calculateHash(BlobBytes(readBlobContent(Disk, k)))

\* the empty file and a file that starts with a NUL byte have been staged
C4_Witness ==
    /\ calculateHash(BlobBytes(Empty)) \in DOMAIN objects
    /\ calculateHash(BlobBytes(<<NUL, Ch("x")>>)) \in DOMAIN objects

(***************************************************************************)
(* Staging: files at three paths, one of them with a space in its name,    *)
(* written and added in every order.                                       *)
(***************************************************************************)
StagePaths == {Str("a"), Str("b"), <<Ch("a"), SP, Ch("b")>>}

StageEdit ==
    \E p \in StagePaths, c \in Contents :
        Apply([Disk EXCEPT !.work = Put(work, p, c)])

StageAdd == \E p \in StagePaths : Apply(handleAdd(Disk, p))

NextStage ==
    \/ StageEdit
    \/ StageAdd

SpecStage == Init /\ [][NextStage]_vars

\* the commands  add order[1]; add order[2]; ...  run one after the other
RECURSIVE AddAll(_, _)
AddAll(S, order) ==
    IF order = <<>> THEN S
    ELSE AddAll(handleAdd(S, Head(order)), Tail(order))

\* the orders in which the paths ps can be staged, each once
Orders(ps) ==
    {o \in [1..Cardinality(ps) -> ps] :
        \A i, j \in 1..Cardinality(ps) : i # j => o[i] # o[j]}

\* the path a line of .minigit/index was written for: what follows the
\* mode, the digest and the two spaces
LinePath(line) == substr(line, 5)

IndexFilePaths(S) ==
    LET lines == getlines(Slurp(S.index)) IN
    [i \in DOMAIN lines |-> LinePath(lines[i])]

StrictlySorted(ps) == \A i \in 1..(Len(ps) - 1) : Less(ps[i], ps[i + 1])

\* C5: from an empty index, staging the same files in any order and then
\* writing the tree gives one tree digest; the index holds each path once
\* and its file lists the paths in sorted order.
C5_TreeDeterminism ==
    /\ Slurp(index) = Empty =>
           \A o1, o2 \in Orders(DOMAIN work) :
               writeTree(AddAll(Disk, o1), FreshCache).ret
                   = writeTree(AddAll(Disk, o2), FreshCache).ret
    /\ StrictlySorted(IndexFilePaths(Disk))

(***************************************************************************)
(* Branches and HEAD.  To compare the tips of branches, snapshots of two   *)
(* paths are committed and branches created along the way.                 *)
(***************************************************************************)
TipPaths == {Str("a"), Str("b")}

TipEdit ==
    \E p \in TipPaths, c \in Contents :
        Apply([Disk EXCEPT !.work = Put(work, p, c)])

TipAdd == \E p \in TipPaths : Apply(handleAdd(Disk, p))

NextTips ==
    \/ RunInit
    \/ TipEdit
    \/ TipAdd
    \/ Commit
    \/ Branch

SpecTips == Init /\ [][NextTips]_vars

\* the path -> blob digest mapping of the snapshot at a branch's tip
TipFiles(S, b) ==
    readTreeToMap(S, readCommit(S, getRefHash(S, HeadsPrefix \o b)).tree)

\* C6: two branches compare as identical exactly when both exist and the
\* snapshots at their tips map the same paths to the same blob digests; the
\* comparison is false as soon as one of the two does not exist.
C6_BranchesIdentical ==
    \A b1, b2 \in BranchNames :
        branchesIdentical(Disk, b1, b2)
            <=> /\ b1 \in DOMAIN refs
                /\ b2 \in DOMAIN refs
                /\ TipFiles(Disk, b1) = TipFiles(Disk, b2)

\* two branches at different commits whose snapshots hold the same two files
C6_Witness ==
    \E b1, b2 \in DOMAIN refs :
        /\ refs[b1] # refs[b2]
        /\ DOMAIN TipFiles(Disk, b1) = TipPaths
        /\ branchesIdentical(Disk, b1, b2)

\* C7: a commit made while HEAD names a branch b, born or not, leaves HEAD
\* naming b and makes refs/heads/b the digest of the new commit; the commit's
\* tree is the tree written from the index, its parents are the previous head
\* commit alone (none when b had no commit), and the head commit is then the
\* new digest.
C7_CommitAdvancesBranch ==
    \A m \in Messages :
        LET b == getCurrentBranch(Disk)
            prev == getHeadCommit(Disk)
            S1 == handleCommit(Disk, m, now)
            new == S1.ret
        IN b # Empty =>
               /\ S1.head = head
               /\ getCurrentBranch(S1) = b
               /\ b \in DOMAIN S1.refs
               /\ getline(S1.refs[b]) = new
               /\ new \in Commits(S1.objects)
               /\ readCommit(S1, new).tree = writeTree(Disk, FreshCache).ret
               /\ Parents(S1, new) = (IF prev = Empty THEN <<>> ELSE <<prev>>)
               /\ (b \notin DOMAIN refs => prev = Empty)
               /\ getHeadCommit(S1) = new

\* HEAD names a branch whose tip has one parent, a commit without parents:
\* the first commit was made on the unborn branch, the second on top of it
C7_Witness ==
    LET b == getCurrentBranch(Disk)
        tip == getHeadCommit(Disk)
    IN /\ b \in DOMAIN refs
       /\ tip \in Commits(objects)
       /\ Len(Parents(Disk, tip)) = 1
       /\ Parents(Disk, tip)[1] \in Commits(objects)
       /\ Parents(Disk, Parents(Disk, tip)[1]) = <<>>

\* what a command left alone: HEAD, every ref, the index, the object store
\* and the working directory
SameState(S) ==
    /\ S.head = head
    /\ S.refs = refs
    /\ S.index = index
    /\ S.objects = objects
    /\ S.work = work

\* C8: branch <name>, when no branch of that name exists and HEAD resolves
\* to a commit, creates refs/heads/<name> holding the current tip and leaves
\* HEAD, the index, the working directory and every other ref as they were;
\* when the name exists or there is no commit yet it changes nothing.
C8_BranchFrame ==
    \A b \in BranchNames :
        LET tip == getHeadCommit(Disk)
            S1 == handleBranch(Disk, b)
        IN IF ~BranchPathExists(Disk, b) /\ tip # Empty
           THEN /\ b \in DOMAIN S1.refs
                /\ getline(S1.refs[b]) = tip
                /\ DOMAIN S1.refs = DOMAIN refs \cup {b}
                /\ \A o \in DOMAIN refs : S1.refs[o] = refs[o]
                /\ S1.head = head
                /\ S1.index = index
                /\ S1.work = work
           ELSE SameState(S1)

\* C9: checkout of an existing branch leaves HEAD naming that branch;
\* checkout of the digest of a stored commit that is no branch name leaves
\* HEAD detached, holding that digest; neither writes a branch ref.
C9_CheckoutHead ==
    /\ \A b \in DOMAIN refs :
           LET S1 == handleCheckout(Disk, b) IN
           /\ ~isDetachedHead(S1)
           /\ getCurrentBranch(S1) = b
           /\ S1.refs = refs
    /\ \A c \in Commits(objects) \ DOMAIN refs :
           LET S1 == handleCheckout(Disk, c) IN
           /\ isDetachedHead(S1)
           /\ getline(Slurp(S1.head)) = c
           /\ getHeadCommit(S1) = c
           /\ S1.refs = refs

\* HEAD is detached at a stored commit while a branch other than the one
\* checked out first exists: a digest was checked out
C9_Witness ==
    /\ isDetachedHead(Disk)
    /\ getHeadCommit(Disk) \in Commits(objects)
    /\ Str("dev") \in DOMAIN refs

\* C10: merge changes neither HEAD, nor a ref, nor the index, nor the object
\* store, nor the working directory when HEAD is detached, when the target
\* is the current branch, when the target branch does not exist, or when
\* the current branch has no commit yet.
C10_MergeRejects ==
    \A b \in BranchNames :
        LET current_branch == getCurrentBranch(Disk) IN
        (\/ isDetachedHead(Disk)
         \/ b = current_branch
         \/ b \notin DOMAIN refs
         \/ current_branch # Empty /\ getHeadCommit(Disk) = Empty)
            => SameState(handleMerge(Disk, b, now))

\* HEAD is detached at a commit and a branch with commits exists to merge
C10_Witness ==
    /\ isDetachedHead(Disk)
    /\ \E b \in DOMAIN refs : getline(refs[b]) \in Commits(objects)

(***************************************************************************)
(* Merges.  In a repository that init has created, snapshots of two paths  *)
(* are committed on two branches and the branches are merged, in either    *)
(* direction, with and without paths that differ.                          *)
(***************************************************************************)
MergeBranches == {Str("main"), Str("dev")}

EmptyDir == [repo |-> FALSE, heads |-> FALSE, head |-> NoFile, refs |-> NoMap,
             index |-> NoFile, objects |-> NoMap, work |-> NoMap,
             stash |-> NoMap, stashDir |-> FALSE,
             ret |-> Empty, writes |-> <<>>, faults |-> <<>>]

\* the directory after  init  has run in it
InitMerge ==
    LET S == handleInit(EmptyDir) IN
    /\ repo = S.repo
    /\ heads = S.heads
    /\ head = S.head
    /\ refs = S.refs
    /\ index = S.index
    /\ objects = S.objects
    /\ work = S.work
    /\ stash = S.stash
    /\ stashDir = S.stashDir
    /\ now = 0
    /\ procs = Idle
    /\ trees = <<>>

\* a merge may add its commit to the MaxCommits that commit has made
WithinMerged(S) == Cardinality(Commits(S.objects)) <= MaxCommits + 1

\* the user writes one of two files: a with either content, b with one
MergeEdit ==
    \E p \in TipPaths, c \in Contents :
        /\ p = Str("b") => c = Str("x")
        /\ Apply([Disk EXCEPT !.work = Put(work, p, c)])

MergeBranch == \E b \in MergeBranches : Apply(handleBranch(Disk, b))

MergeSwitch == \E b \in MergeBranches : Apply(handleSwitch(Disk, b))

MergeMerge ==
    \E b \in MergeBranches :
        LET S == handleMerge(Disk, b, now) IN WithinMerged(S) /\ Apply(S)

NextMerge ==
    \/ MergeEdit
    \/ TipAdd
    \/ Commit
    \/ MergeBranch
    \/ MergeSwitch
    \/ MergeMerge

SpecMerge == InitMerge /\ [][NextMerge]_vars

\* the path -> blob digest mapping of the snapshot of a commit
FilesOf(S, commit_hash) == readTreeToMap(S, readCommit(S, commit_hash).tree)

\* merge <b> passes every check that rejects a merge
Accepted(S, b) ==
    /\ getCurrentBranch(S) # Empty
    /\ b # getCurrentBranch(S)
    /\ getHeadCommit(S) # Empty
    /\ b \in DOMAIN S.refs

\* the blob of the file with the conflict markers for path p
ConflictBlob(S, current_branch, C, b, T, p) ==
    calculateHash(BlobBytes(ConflictContent(current_branch,
                                            readBlobContent(S, C[p]),
                                            b,
                                            readBlobContent(S, T[p]))))

\* C11: after an accepted merge of branch b into the current branch the
\* index holds exactly the paths of the two tip snapshots, whatever was
\* staged before, and for each path: the common digest when both sides
\* agree, the digest of the conflict-marker blob when they differ, the
\* current side's digest when only it has the path, the other side's digest
\* when only it has the path.
C11_MergedIndex ==
    \A b \in MergeBranches :
        LET current_branch == getCurrentBranch(Disk)
            C == FilesOf(Disk, getHeadCommit(Disk))
            T == TipFiles(Disk, b)
            S1 == handleMerge(Disk, b, now)
            idx == readIndex(S1, FreshCache).map
        IN Accepted(Disk, b) =>
               /\ DOMAIN idx = DOMAIN C \cup DOMAIN T
               /\ \A p \in DOMAIN idx :
                      idx[p].hash =
                          IF p \in DOMAIN C /\ p \in DOMAIN T
                          THEN IF C[p] = T[p] THEN C[p]
                               ELSE ConflictBlob(Disk, current_branch, C, b, T, p)
                          ELSE IF p \in DOMAIN C THEN C[p]
                          ELSE T[p]

\* the tip of the current branch is a merge commit of two commits, one whose
\* snapshot lacks a path of the other, and the index holds both paths
C11_Witness ==
    LET ps == Parents(Disk, getHeadCommit(Disk)) IN
    /\ getCurrentBranch(Disk) # Empty
    /\ Len(ps) = 2
    /\ ps[1] # ps[2]
    /\ DOMAIN FilesOf(Disk, ps[1]) # DOMAIN FilesOf(Disk, ps[2])
    /\ DOMAIN readIndex(Disk, FreshCache).map
           = DOMAIN FilesOf(Disk, ps[1]) \cup DOMAIN FilesOf(Disk, ps[2])
    /\ DOMAIN readIndex(Disk, FreshCache).map = TipPaths

\* the paths both snapshots hold with different digests
ConflictPaths(C, T) == {p \in DOMAIN C \cap DOMAIN T : C[p] # T[p]}

\* C12: an accepted merge that finds no conflicting path creates exactly one
\* new commit, whose tree is the tree written from the merged index and
\* whose parents are the current tip and then the target tip, and makes the
\* current branch's ref that commit's digest; HEAD and the other refs stay.
C12_MergeCommit ==
    \A b \in MergeBranches :
        LET current_branch == getCurrentBranch(Disk)
            current_commit == getHeadCommit(Disk)
            merge_commit == getRefHash(Disk, HeadsPrefix \o b)
            S1 == handleMerge(Disk, b, now)
            new == getRefHash(S1, HeadsPrefix \o current_branch)
        IN (/\ Accepted(Disk, b)
            /\ ConflictPaths(FilesOf(Disk, current_commit), TipFiles(Disk, b)) = {})
           => /\ Commits(S1.objects) \ Commits(objects) = {new}
              /\ readCommit(S1, new).tree = writeTree(S1, FreshCache).ret
              /\ readCommit(S1, new).tree \in Trees(S1.objects)
              /\ Parents(S1, new) = <<current_commit, merge_commit>>
              /\ S1.head = head
              /\ DOMAIN S1.refs = DOMAIN refs
              /\ \A o \in DOMAIN refs \ {current_branch} : S1.refs[o] = refs[o]

\* the current branch's tip is a merge commit of two different commits, the
\* second of which is still the tip of the other branch
C12_Witness ==
    LET current_branch == getCurrentBranch(Disk)
        ps == Parents(Disk, getHeadCommit(Disk))
    IN /\ current_branch \in DOMAIN refs
       /\ Len(ps) = 2
       /\ ps[1] # ps[2]
       /\ \E b \in DOMAIN refs \ {current_branch} : getline(refs[b]) = ps[2]

\* the paths a merge reported as conflicting, one per printed line
Reported(S) ==
    LET lines == getlines(S.ret) IN
    [i \in DOMAIN lines |-> substr(lines[i], 2)]

\* C13: an accepted merge that finds conflicting paths creates no commit
\* object and changes neither a ref nor HEAD; for every conflicting path the
\* working file holds the conflict markers and the index holds the blob of
\* that file; the paths reported are exactly those both snapshots hold with
\* different digests, each once.
C13_ConflictedMerge ==
    \A b \in MergeBranches :
        LET current_branch == getCurrentBranch(Disk)
            C == FilesOf(Disk, getHeadCommit(Disk))
            T == TipFiles(Disk, b)
            S1 == handleMerge(Disk, b, now)
            idx == readIndex(S1, FreshCache).map
        IN (Accepted(Disk, b) /\ ConflictPaths(C, T) # {})
           => /\ Commits(S1.objects) = Commits(objects)
              /\ S1.refs = refs
              /\ S1.head = head
              /\ \A p \in ConflictPaths(C, T) :
                     /\ p \in DOMAIN S1.work
                     /\ S1.work[p] = ConflictContent(current_branch,
                                                     readBlobContent(Disk, C[p]),
                                                     b,
                                                     readBlobContent(Disk, T[p]))
                     /\ p \in DOMAIN idx
                     /\ idx[p].hash = calculateHash(BlobBytes(S1.work[p]))
                     /\ idx[p].hash \in Blobs(S1.objects)
              /\ {Reported(S1)[i] : i \in DOMAIN Reported(S1)} = ConflictPaths(C, T)
              /\ Len(Reported(S1)) = Cardinality(ConflictPaths(C, T))

\* a merge has left a file with conflict markers in the working directory
\* and its blob in the index, and the current tip is no merge commit
C13_Witness ==
    LET idx == readIndex(Disk, FreshCache).map IN
    /\ Len(Parents(Disk, getHeadCommit(Disk))) < 2
    /\ \E p \in DOMAIN work \cap DOMAIN idx :
           /\ work[p] # Empty
           /\ Head(work[p]) = Ch("<<<<<<<")
           /\ idx[p].hash = calculateHash(BlobBytes(work[p]))

(***************************************************************************)
(* Conflicts.  One file, empty, without a final newline or with one, is    *)
(* committed on two branches and the branches are merged.                  *)
(***************************************************************************)
ConflictContents == {Empty, Str("x"), <<Ch("y"), NL>>}

ConflictEdit ==
    \E p \in Paths, c \in ConflictContents :
        Apply([Disk EXCEPT !.work = Put(work, p, c)])

NextConflict ==
    \/ ConflictEdit
    \/ Add
    \/ Commit
    \/ MergeBranch
    \/ MergeSwitch
    \/ MergeMerge

SpecConflict == InitMerge /\ [][NextConflict]_vars

\* content with a newline after it unless its last byte is one
Terminated(content) ==
    IF content = Empty \/ content[Len(content)] # NL
    THEN content \o <<NL>> ELSE content

\* content with a newline after it unless it is empty or its last byte is one
TerminatedLines(content) ==
    IF content = Empty THEN Empty ELSE Terminated(content)

\* the conflict file, given the two sides as they are to appear in it
MarkerFile(current_branch, current_side, branch_to_merge, merge_side) ==
    <<Ch("<<<<<<<"), SP>> \o current_branch \o <<NL>>
    \o current_side
    \o <<Ch("======="), NL>>
    \o merge_side
    \o <<Ch(">>>>>>>"), SP>> \o branch_to_merge \o <<NL>>

\* C14 as stated: for every conflicting path the file merge writes is the
\* marker line of the current branch, the current content ended by a newline
\* if it does not end with one, the separator line, the target content ended
\* by a newline if it does not end with one, and the marker line of the
\* target branch; the staged blob is the blob of that file.
C14_ConflictFile ==
    \A b \in MergeBranches :
        LET current_branch == getCurrentBranch(Disk)
            C == FilesOf(Disk, getHeadCommit(Disk))
            T == TipFiles(Disk, b)
            S1 == handleMerge(Disk, b, now)
            idx == readIndex(S1, FreshCache).map
        IN Accepted(Disk, b) =>
               \A p \in ConflictPaths(C, T) :
                   /\ S1.work[p] = MarkerFile(current_branch,
                                       Terminated(readBlobContent(Disk, C[p])),
                                       b,
                                       Terminated(readBlobContent(Disk, T[p])))
                   /\ idx[p].hash = calculateHash(BlobBytes(S1.work[p]))
                   /\ readObject(S1, idx[p].hash) = BlobBytes(S1.work[p])

\* C14, amended: as above, except that an empty content contributes nothing
\* to the file, not even a newline: the marker line of the current branch is
\* then followed at once by the separator line, and the separator line by
\* the marker line of the target branch.
C14_ConflictFileAmended ==
    \A b \in MergeBranches :
        LET current_branch == getCurrentBranch(Disk)
            C == FilesOf(Disk, getHeadCommit(Disk))
            T == TipFiles(Disk, b)
            S1 == handleMerge(Disk, b, now)
            idx == readIndex(S1, FreshCache).map
        IN Accepted(Disk, b) =>
               \A p \in ConflictPaths(C, T) :
                   /\ S1.work[p] = MarkerFile(current_branch,
                                       TerminatedLines(readBlobContent(Disk, C[p])),
                                       b,
                                       TerminatedLines(readBlobContent(Disk, T[p])))
                   /\ idx[p].hash = calculateHash(BlobBytes(S1.work[p]))
                   /\ readObject(S1, idx[p].hash) = BlobBytes(S1.work[p])

\* a merge has written a conflict file whose current side is empty and
\* whose other side ends in a newline of its own, and staged its blob
C14_Witness ==
    LET idx == readIndex(Disk, FreshCache).map IN
    \E p \in DOMAIN work \cap DOMAIN idx, b1, b2 \in MergeBranches :
        /\ work[p] = MarkerFile(b1, Empty, b2, <<Ch("y"), NL>>)
        /\ idx[p].hash = calculateHash(BlobBytes(work[p]))

\* C15: an accepted merge of a branch of another name whose tip has the tree
\* of the current tip finds no conflict and makes a merge commit whose tree
\* digest is the tree digest of both of its parents.
C15_ConvergentMerge ==
    \A b \in MergeBranches :
        LET current_branch == getCurrentBranch(Disk)
            current_commit == getHeadCommit(Disk)
            merge_commit == getRefHash(Disk, HeadsPrefix \o b)
            S1 == handleMerge(Disk, b, now)
            new == getRefHash(S1, HeadsPrefix \o current_branch)
        IN (Accepted(Disk, b) /\ branchesIdentical(Disk, current_branch, b))
           => /\ S1.ret = new
              /\ new \in Commits(S1.objects) \ Commits(objects)
              /\ Parents(S1, new) = <<current_commit, merge_commit>>
              /\ readCommit(S1, new).tree = readCommit(S1, current_commit).tree
              /\ readCommit(S1, new).tree = readCommit(S1, merge_commit).tree

\* the current tip is a merge commit of two different commits, and the three
\* commits carry one tree, which holds a file
C15_Witness ==
    LET tip == getHeadCommit(Disk)
        ps == Parents(Disk, tip)
    IN /\ getCurrentBranch(Disk) \in DOMAIN refs
       /\ Len(ps) = 2
       /\ ps[1] # ps[2]
       /\ readCommit(Disk, ps[1]).tree = readCommit(Disk, tip).tree
       /\ readCommit(Disk, ps[2]).tree = readCommit(Disk, tip).tree
       /\ FilesOf(Disk, tip) # NoMap

(***************************************************************************)
(* Integrity.  A history of one file is built on two branches, merges      *)
(* included; then a file of the object store is overwritten, emptied or    *)
(* removed from outside the program, and the walk is run on what is left.  *)
(***************************************************************************)
\* what an object file is overwritten with: other bytes, or none at all
DamageBytes == {Garbage, Empty}

\* the object file k is present and holds the bytes that hash to its name
Sound(S, k) == k \in DOMAIN S.objects /\ calculateHash(S.objects[k]) = k

\* every digest a stored commit, a stored tree, the index, a ref or HEAD
\* names is the name of an object file
Closed(S) ==
    /\ \A c \in Commits(S.objects) :
           /\ readCommit(S, c).tree \in DOMAIN S.objects
           /\ \A i \in DOMAIN Parents(S, c) : Parents(S, c)[i] \in DOMAIN S.objects
    /\ \A t \in Trees(S.objects) :
           \A p \in DOMAIN readTreeToMap(S, t) :
               readTreeToMap(S, t)[p] \in DOMAIN S.objects
    /\ \A p \in DOMAIN readIndex(S, FreshCache).map :
           readIndex(S, FreshCache).map[p].hash \in DOMAIN S.objects
    /\ \A b \in DOMAIN S.refs : getline(S.refs[b]) \in DOMAIN S.objects
    /\ getHeadCommit(S) # Empty => getHeadCommit(S) \in DOMAIN S.objects

\* nothing has been altered or removed yet
Intact(S) == Closed(S) /\ \A k \in DOMAIN S.objects : Sound(S, k)

\* the object file k overwritten with the bytes bytes
Damaged(S, k, bytes) == [S EXCEPT !.objects = Put(S.objects, k, bytes)]

\* the object file k removed
Deleted(S, k) == [S EXCEPT !.objects = Remove(S.objects, {k})]

Damage ==
    /\ Intact(Disk)
    /\ \E k \in DOMAIN objects, bytes \in DamageBytes :
           Apply(Damaged(Disk, k, bytes))

Delete ==
    /\ Intact(Disk)
    /\ \E k \in DOMAIN objects : Apply(Deleted(Disk, k))

\* the user writes the file, always with the same content
VerifyEdit ==
    /\ Intact(Disk)
    /\ \E p \in Paths : Apply([Disk EXCEPT !.work = Put(work, p, Str("x"))])

VerifyAdd == Intact(Disk) /\ Add
VerifyCommit == Intact(Disk) /\ Commit
VerifyBranch == Intact(Disk) /\ MergeBranch
VerifySwitch == Intact(Disk) /\ MergeSwitch
VerifyMerge == Intact(Disk) /\ MergeMerge

NextVerify ==
    \/ VerifyEdit
    \/ VerifyAdd
    \/ VerifyCommit
    \/ VerifyBranch
    \/ VerifySwitch
    \/ VerifyMerge
    \/ Damage
    \/ Delete

SpecVerify == InitMerge /\ [][NextVerify]_vars

\* the directory as it is, and with one more object file altered or removed
Spoiled(S) ==
    {S} \cup {Damaged(S, k, bytes) : k \in DOMAIN S.objects, bytes \in DamageBytes}
        \cup {Deleted(S, k) : k \in DOMAIN S.objects}

\* the commit c, its tree and every blob its tree names are present and
\* stored under the digest of their bytes
SoundCommit(S, c) ==
    /\ Sound(S, c)
    /\ Sound(S, readCommit(S, c).tree)
    /\ \A p \in DOMAIN FilesOf(S, c) : Sound(S, FilesOf(S, c)[p])

\* the commits from c on along the parent link a commit is read with; the
\* chain ends at a commit that is absent or altered, whose link is unknown
RECURSIVE ChainFrom(_, _)
ChainFrom(S, c) ==
    IF c = Empty THEN <<>>
    ELSE IF ~Sound(S, c) THEN <<c>>
    ELSE <<c>> \o ChainFrom(S, readCommit(S, c).parent)

\* the positions of the chain whose commit, tree or blobs are not sound
Offending(S, chain) == {i \in DOMAIN chain : ~SoundCommit(S, chain[i])}

First(is) == CHOOSE i \in is : \A j \in is : i <= j

\* C16: the walk from HEAD returns failure exactly when a commit of the
\* chain it walks, that commit's tree or a blob that tree names is missing
\* or holds bytes that do not hash to its name, and success otherwise; on
\* failure the commits it has looked at are those up to the first offending
\* one and no further.
C16_VerifyDetects ==
    \A D \in Spoiled(Disk) :
        LET r == verifyRepositoryIntegrity(D)
            chain == ChainFrom(D, getHeadCommit(D))
            bad == Offending(D, chain)
        IN /\ ~r.thrown
           /\ r.ok <=> bad = {}
           /\ bad = {} => r.visited = chain
           /\ bad # {} => r.visited = SubSeq(chain, 1, First(bad))

\* the tip at HEAD is sound with its tree and blobs; a commit further down
\* the chain is sound itself but its tree is missing or altered, and the
\* walk fails there
C16_Witness ==
    LET chain == ChainFrom(Disk, getHeadCommit(Disk))
        bad == Offending(Disk, chain)
    IN /\ bad # {}
       /\ First(bad) > 1
       /\ Sound(Disk, chain[First(bad)])
       /\ ~verifyRepositoryIntegrity(Disk).ok

\* the first parent line of the commit c, "" when it has none
FirstParent(S, c) ==
    IF Parents(S, c) = <<>> THEN Empty ELSE Parents(S, c)[1]

\* each commit of the walk is the first parent of the one before it
FirstParentWalk(S, visited) ==
    \A i \in 1..(Len(visited) - 1) : visited[i + 1] = FirstParent(S, visited[i])

\* C17: in a repository nothing has altered, the integrity walk and the log
\* walk from HEAD go from each commit to its first parent: from a merge
\* commit with the parents (current tip, target tip) the commit visited
\* next is the current tip, never the target tip.
C17_FirstParentOnly ==
    Intact(Disk) =>
        /\ FirstParentWalk(Disk, verifyRepositoryIntegrity(Disk).visited)
        /\ FirstParentWalk(Disk, handleLog(Disk))

(***************************************************************************)
(* The index and its cache, within one process that calls readIndex,       *)
(* writeIndex, addToIndex and clearIndex one after the other.              *)
(***************************************************************************)
\* the mapping the index file holds: what a process that has read nothing
\* yet gets from readIndex
Persisted(S) == readIndex(S, FreshCache).map

\* the mappings handed to writeIndex: none, the one on disk, the one on
\* disk with a path more
WrittenMaps(S) ==
    {NoMap, Persisted(S)}
        \cup {Put(Persisted(S), p, IndexEntry(Mode644, calculateHash(BlobBytes(Empty)))) :
                 p \in StagePaths}

\* the calls a process makes, as functions of the process
CallsOn(P) ==
    {ReadCall(P), clearIndex(P)}
        \cup {WriteCall(P, map) : map \in WrittenMaps(P.disk)}
        \cup {addToIndex(P, p) : p \in StagePaths}

\* the cache, once loaded, holds the mapping the index file holds
Coherent(P) == P.cache.loaded => P.cache.map = Persisted(P.disk)

\* C18: within one process, after any two calls among readIndex,
\* writeIndex, addToIndex and clearIndex, the cached mapping equals the
\* persisted mapping; a readIndex that follows writeIndex(map) returns map,
\* and one that follows clearIndex returns the empty mapping.
C18_IndexReadAfterWrite ==
    \A P1 \in CallsOn(Process(Disk)) :
        /\ Coherent(P1)
        /\ \A P2 \in CallsOn(P1) : Coherent(P2)
        /\ \A map \in WrittenMaps(P1.disk) :
               ReadCall(WriteCall(P1, map)).cache.map = map
        /\ ReadCall(clearIndex(P1)).cache.map = NoMap

(***************************************************************************)
(* Write failures.  The writes of object files that commit and merge make  *)
(* succeed, throw or fail silently, in every combination, while a history  *)
(* of one file is built on two branches.                                   *)
(***************************************************************************)
Outcomes == {"ok", "throw", "silent"}

\* how the first and the second write of an object file of a command end
FaultPlans == [1..2 -> Outcomes]

Failing(S, f) == [S EXCEPT !.faults = f]

\* a command runs while no earlier failure has left a digest that names no
\* object file
FaultyCommit ==
    /\ Intact(Disk)
    /\ \E m \in Messages, f \in FaultPlans :
           LET S == handleCommit(Failing(Disk, f), m, now) IN Within(S) /\ Apply(S)

FaultyMerge ==
    /\ Intact(Disk)
    /\ \E b \in MergeBranches, f \in FaultPlans :
           LET S == handleMerge(Failing(Disk, f), b, now) IN
           WithinMerged(S) /\ Apply(S)

NextFaulty ==
    \/ VerifyEdit
    \/ VerifyAdd
    \/ FaultyCommit
    \/ VerifyBranch
    \/ VerifySwitch
    \/ FaultyMerge

SpecFaulty == InitMerge /\ [][NextFaulty]_vars

\* C19: when the write of the tree object fails, commit creates no commit
\* object; when the write of the commit object fails, commit changes
\* neither a branch ref nor HEAD.
C19_CommitAllOrNothing ==
    \A m \in Messages, f \in FaultPlans :
        LET S1 == handleCommit(Failing(Disk, f), m, now) IN
        /\ f[1] # "ok" => Commits(S1.objects) = Commits(objects)
        /\ (f[1] = "ok" /\ f[2] # "ok") => (S1.refs = refs /\ S1.head = head)

\* C20: when, in an accepted merge without conflicting paths, the write of
\* the tree object or of the merge commit object fails, the current branch's
\* ref is left as it was; it holds the digest of a stored commit afterwards.
C20_MergeAllOrNothing ==
    \A b \in MergeBranches, f \in FaultPlans :
        LET current_branch == getCurrentBranch(Disk)
            S1 == handleMerge(Failing(Disk, f), b, now)
        IN (/\ Accepted(Disk, b)
            /\ ConflictPaths(FilesOf(Disk, getHeadCommit(Disk)), TipFiles(Disk, b)) = {}
            /\ \E i \in DOMAIN f : f[i] # "ok")
           => /\ S1.refs[current_branch] = refs[current_branch]
              /\ getRefHash(S1, HeadsPrefix \o current_branch) \in Commits(S1.objects)

(***************************************************************************)
(* Reading objects that are missing or malformed.                          *)
(***************************************************************************)
\* the digests the program is led to read: the names of the object files
\* and the digest HEAD resolves to
ReadKeys(S) == (DOMAIN S.objects \cup {getHeadCommit(S)}) \ {Empty}

Missing(S, k) == k \notin DOMAIN S.objects

\* the object file k holds no header separator, or its kind tag is not kind
Malformed(S, k, kind) ==
    /\ k \in DOMAIN S.objects
    /\ find(S.objects[k], NUL) = 0 \/ Kind(S.objects[k]) # Str(kind)

\* C21: reading a missing object and reading a malformed object (no header
\* separator, or a kind tag other than the one asked for) end in two
\* distinct outcomes, and neither is the empty default: the empty commit,
\* the empty tree, the empty blob content.
C21_ReadErrors ==
    \A k \in ReadKeys(Disk) :
        /\ Missing(Disk, k) \/ Malformed(Disk, k, "commit")
               => readCommit(Disk, k) # NoCommit
        /\ Missing(Disk, k) \/ Malformed(Disk, k, "tree")
               => readTreeToMap(Disk, k) # NoMap
        /\ Missing(Disk, k) \/ Malformed(Disk, k, "blob")
               => readBlobContent(Disk, k) # Empty
        /\ \A m \in ReadKeys(Disk) :
               (Missing(Disk, k) /\ Malformed(Disk, m, "commit"))
                   => readCommit(Disk, k) # readCommit(Disk, m)

(***************************************************************************)
(* Commands as processes.  A command is a process that runs in steps: its  *)
(* reads of the files and each of its file writes are steps of their own,  *)
(* so the steps of two commands interleave, and a command may stop between *)
(* its steps or part of the way through a write.                           *)
(***************************************************************************)
\* the files a command rewrites through an ofstream
IndexFile == [kind |-> "index", path |-> Empty]
HeadFile == [kind |-> "head", path |-> Empty]
RefFile(ref_path) == [kind |-> "ref", path |-> ref_path]

\* the ofstream leaves the file with these bytes
Rewritten(S, file, bytes) ==
    IF file.kind = "index" THEN (IF S.repo THEN [S EXCEPT !.index = File(bytes)] ELSE S)
    ELSE IF file.kind = "head" THEN WriteHeadFile(S, bytes)
    ELSE WriteRefFile(S, file.path, bytes)

RECURSIVE Concat(_)
Concat(chunks) ==
    IF chunks = <<>> THEN Empty ELSE Head(chunks) \o Concat(Tail(chunks))

\* a write that is under way: the stream is opened, which empties the file,
\* and the chunks reach the file one flush after the other
WriteJob(file, chunks) == [file |-> file, chunks |-> chunks]

\* the file once it is opened and the first k chunks have reached it
WriteUpTo(S, job, k) == Rewritten(S, job.file, Concat(SubSeq(job.chunks, 1, k)))

\* writeIndex(map): one line per entry, each ended by endl, which flushes
IndexJob(map) ==
    LET keys == Sorted(DOMAIN map) IN
    WriteJob(IndexFile, [i \in 1..Len(keys) |-> IndexLines(map, <<keys[i]>>)])

\* a command that has been started and has taken no step yet
Start(c) == [cmd |-> c.cmd, arg |-> c.arg, pc |-> "start", val |-> Empty,
             jobs |-> <<>>]

AddCmd(p) == [cmd |-> "add", arg |-> p]
CommitCmd(m) == [cmd |-> "commit", arg |-> m]
CheckoutCmd(target) == [cmd |-> "checkout", arg |-> target]

Done(L) == [L EXCEPT !.pc = "done"]

Running(L) == L.pc \notin {"done", "crashed"}

\* add: the existence test and hashObject; readIndex; writeIndex
AddStep(S, L) ==
    IF L.pc = "start"
    THEN IF L.arg \notin DOMAIN S.work THEN [disk |-> S, local |-> Done(L)]
         ELSE LET S1 == hashObject(S, L.arg) IN
              [disk |-> S1, local |-> [L EXCEPT !.pc = "read", !.val = S1.ret]]
    ELSE LET idx == readIndex(S, FreshCache).map IN
         [disk |-> S,
          local |-> [L EXCEPT !.pc = "write",
                              !.jobs = <<IndexJob(Put(idx, L.arg,
                                             IndexEntry(Mode644, L.val)))>>]]

\* commit: writeTree; getHeadCommit and writeCommit; the read of HEAD that
\* tells which file receives the digest
CommitStep(S, L, t) ==
    IF L.pc = "start"
    THEN LET S1 == writeTree(S, FreshCache) IN
         IF S1.ret = Empty THEN [disk |-> S1, local |-> Done(L)]
         ELSE [disk |-> S1, local |-> [L EXCEPT !.pc = "commit", !.val = S1.ret]]
    ELSE IF L.pc = "commit"
    THEN LET S2 == writeCommit(S, L.val, getHeadCommit(S), L.arg, t) IN
         IF S2.ret = Empty THEN [disk |-> S2, local |-> Done(L)]
         ELSE [disk |-> S2, local |-> [L EXCEPT !.pc = "head", !.val = S2.ret]]
    ELSE LET head_content == getline(Slurp(S.head)) IN
         IF S.head = NoFile THEN [disk |-> S, local |-> Done(L)]
         ELSE [disk |-> S,
               local |-> [L EXCEPT !.pc = "write",
                   !.jobs = <<WriteJob(
                       IF StartsWith(head_content, RefPrefix)
                       THEN RefFile(substr(head_content, Len(RefPrefix) + 1))
                       ELSE HeadFile,
                       <<L.val \o <<NL>>>>)>>]]

\* checkout: everything up to the working files in one step; then
\* writeIndex and the write of HEAD
CheckoutStep(S, L) ==
    LET target == L.arg
        is_branch == BranchPathExists(S, target)
        commit_hash == IF is_branch
                       THEN (IF target \in DOMAIN S.refs
                             THEN getline(S.refs[target]) ELSE Empty)
                       ELSE target
        commit == readCommit(S, commit_hash)
        files == readTreeToMap(S, commit.tree)
        idx == readIndex(S, FreshCache).map
        W == CheckoutFiles([disk |-> RemoveTracked(S, idx), thrown |-> RemoveThrows(S, idx)],
                           files, Sorted(DOMAIN files))
    IN IF Throws(commit_hash) \/ commit.tree = Empty \/ Throws(commit.tree)
       THEN [disk |-> S, local |-> Done(L)]
       ELSE IF W.thrown THEN [disk |-> W.disk, local |-> Done(L)]
       ELSE [disk |-> W.disk,
             local |-> [L EXCEPT !.pc = "write",
                 !.jobs = <<IndexJob(NewIndex(files)),
                            WriteJob(HeadFile,
                                <<CheckoutHead(is_branch, target, commit_hash)>>)>>]]

\* the next write of the command, from the opening of the stream to its
\* last flush
WriteStep(S, L) ==
    LET job == Head(L.jobs) IN
    [disk |-> WriteUpTo(S, job, Len(job.chunks)),
     local |-> [L EXCEPT !.jobs = Tail(L.jobs),
                         !.pc = IF Tail(L.jobs) = <<>> THEN "done" ELSE "write"]]

\* one step of a running command
StepOf(S, L, t) ==
    IF L.pc = "write" THEN WriteStep(S, L)
    ELSE IF L.cmd = "add" THEN AddStep(S, L)
    ELSE IF L.cmd = "commit" THEN CommitStep(S, L, t)
    ELSE CheckoutStep(S, L)

\* the command run alone, from its first step to its last
Serial(S, c, t) ==
    IF c.cmd = "add" THEN handleAdd(S, c.arg)
    ELSE IF c.cmd = "commit" THEN handleCommit(S, c.arg, t)
    ELSE handleCheckout(S, c.arg)

CommandOf(L) == [cmd |-> L.cmd, arg |-> L.arg]

SoloCommands ==
    {AddCmd(p) : p \in TipPaths} \cup {CommitCmd(m) : m \in Messages}
        \cup {CheckoutCmd(Str("main"))}

\* two commands started together: two adds of different paths, an add and a
\* commit, two commits
PairCommands ==
    {<<AddCmd(Str("a")), AddCmd(Str("b"))>>,
     <<AddCmd(Str("a")), CommitCmd(Str("m"))>>,
     <<CommitCmd(Str("m")), CommitCmd(Str("m"))>>}

\* how many of the commands may add a commit
CommitsOf(cs) == Cardinality({i \in DOMAIN cs : cs[i].cmd = "commit"})

\* the commands started leave the run within MaxCommits commits
Room(cs) == Cardinality(Commits(objects)) + CommitsOf(cs) <= MaxCommits

\* the user writes a file while no command runs
ProcEdit ==
    /\ procs = Idle
    /\ \E p \in TipPaths : Apply([Disk EXCEPT !.work = Put(work, p, Str("x"))])

Started(cs) ==
    /\ procs = Idle
    /\ Room(cs)
    /\ Store(Disk)
    /\ procs' = [base |-> <<Disk>>, ps |-> [i \in DOMAIN cs |-> Start(cs[i])]]
    /\ trees' = trees

Launch == \E c \in SoloCommands : Started(<<c>>)

LaunchPair == \E cs \in PairCommands : Started(cs)

ProcStep ==
    /\ \A i \in DOMAIN procs.ps : procs.ps[i].pc # "crashed"
    /\ \E i \in DOMAIN procs.ps :
           /\ Running(procs.ps[i])
           /\ LET R == StepOf(Disk, procs.ps[i], now) IN
              /\ Store(R.disk)
              /\ procs' = [procs EXCEPT !.ps[i] = R.local]
    /\ trees' = trees

\* a command that runs alone stops for good: between two steps, or in a
\* write, once the stream is open and fewer chunks than all have reached
\* the file
Crash ==
    /\ Len(procs.ps) = 1
    /\ Running(procs.ps[1])
    /\ trees' = trees
    /\ LET L == procs.ps[1] IN
       /\ procs' = [procs EXCEPT !.ps[1].pc = "crashed"]
       /\ IF L.pc = "write"
          THEN \E k \in 0..(Len(Head(L.jobs).chunks) - 1) :
                   Store(WriteUpTo(Disk, Head(L.jobs), k))
          ELSE Store(Disk)

\* the commands have ended; the next ones start from what they left
Reap ==
    /\ procs.ps # <<>>
    /\ \A i \in DOMAIN procs.ps : procs.ps[i].pc = "done"
    /\ Store(Disk)
    /\ procs' = Idle
    /\ trees' = trees

NextProcs ==
    \/ ProcEdit
    \/ Launch
    \/ LaunchPair
    \/ ProcStep
    \/ Crash
    \/ Reap

SpecProcs == InitMerge /\ [][NextProcs]_vars

\* C22: when two commands that were started together have both ended, the
\* index and the refs are those that one of the two serial orders of the
\* two commands leaves.
C22_Serializable ==
    (Len(procs.ps) = 2 /\ \A i \in 1..2 : procs.ps[i].pc = "done") =>
        \E o \in {<<1, 2>>, <<2, 1>>} :
            LET first == CommandOf(procs.ps[o[1]])
                second == CommandOf(procs.ps[o[2]])
                S2 == Serial(Serial(procs.base[1], first, now), second, now)
            IN index = S2.index /\ refs = S2.refs

\* what a reader finds in the file of the branch b: nothing when it is absent
RefBytes(S, b) == IF b \in DOMAIN S.refs THEN S.refs[b] ELSE Empty

\* C23: when a command that ran alone has stopped at any point, a reader
\* finds in the index file, in every branch ref file and in HEAD either all
\* of what the file held before the command or all of what the completed
\* command leaves in it.
C23_CrashAtomic ==
    (Len(procs.ps) = 1 /\ procs.ps[1].pc = "crashed") =>
        LET old == procs.base[1]
            new == Serial(old, CommandOf(procs.ps[1]), now)
        IN /\ Slurp(index) \in {Slurp(old.index), Slurp(new.index)}
           /\ Slurp(head) \in {Slurp(old.head), Slurp(new.head)}
           /\ \A b \in DOMAIN refs \cup DOMAIN old.refs :
                  RefBytes(Disk, b) \in {RefBytes(old, b), RefBytes(new, b)}

\* a command run alone in steps leaves what the command run in one step does
SoloAgrees ==
    (Len(procs.ps) = 1 /\ procs.ps[1].pc = "done") =>
        LET new == Serial(procs.base[1], CommandOf(procs.ps[1]), now) IN
        /\ index = new.index /\ head = new.head /\ refs = new.refs
        /\ objects = new.objects /\ work = new.work

(***************************************************************************)
(* merkle.cpp.  A MerkleNode is the record of its four fields; children is *)
(* the vector of its child nodes.  Every node here exists: the null        *)
(* pointers the functions guard against are never passed.                  *)
(***************************************************************************)
MerkleNode(p, file) ==
    [hash |-> Empty, path |-> p, is_file |-> file, children |-> <<>>]

\* the children that carry the paths of keys, path after path
RECURSIVE ChildrenByPaths(_, _)
ChildrenByPaths(children, keys) ==
    IF keys = <<>> THEN <<>>
    ELSE SelectSeq(children, LAMBDA c : c.path = Head(keys))
         \o ChildrenByPaths(children, Tail(keys))

\* sort(sorted_children.begin(), sorted_children.end(), a->path < b->path).
\* No directory and no tree object read here gives two children one path,
\* the one case in which std::sort leaves the order open.
SortedChildren(children) ==
    ChildrenByPaths(children, Sorted({children[i].path : i \in DOMAIN children}))

\* combined << child->path << ":" << child->hash << ";" for the children
\* that have a hash
RECURSIVE Combined(_)
Combined(children) ==
    IF children = <<>> THEN Empty
    ELSE (IF Head(children).hash # Empty
          THEN Head(children).path \o <<Ch(":")>> \o Head(children).hash \o <<Ch(";")>>
          ELSE Empty)
         \o Combined(Tail(children))

\* the hash fields of the children are taken as they stand: nothing below
\* them is looked at
calculateMerkleHash(node) ==
    IF node.is_file /\ node.hash # Empty THEN node.hash
    ELSE calculateHash(<<Ch("merkle_dir"), SP>>
                       \o Combined(SortedChildren(node.children)))

\* entry.path().string() of the working file p, as directory_iterator(".")
\* and the iterators below it give it: "./" + p
EntryPath(p) == <<Ch("."), Slash>> \o p

\* the entries of the directory dir_path: the paths one component below it
Entries(S, dir_path) ==
    {SubSeq(EntryPath(p), 1, Len(dir_path) + 2) :
        p \in {q \in DOMAIN S.work : StartsWith(EntryPath(q), dir_path \o <<Slash>>)}}

is_directory(S, entry) ==
    \E p \in DOMAIN S.work : StartsWith(EntryPath(p), entry \o <<Slash>>)

\* utils.cpp: the digest of the blob the file at ./p would be stored as
getFileHash(S, filepath) ==
    calculateHash(BlobBytes(FileContent(S, substr(filepath, 3))))

RECURSIVE buildFromDirectory(_, _)
BuildEntry(S, entry) ==
    IF is_directory(S, entry) THEN buildFromDirectory(S, entry)
    ELSE [MerkleNode(entry, TRUE) EXCEPT !.hash = getFileHash(S, entry)]

buildFromDirectory(S, dir_path) ==
    LET entries == Sorted(Entries(S, dir_path))
        node == [MerkleNode(dir_path, FALSE) EXCEPT
                    !.children = [i \in DOMAIN entries |-> BuildEntry(S, entries[i])]]
    IN [node EXCEPT !.hash = calculateMerkleHash(node)]

buildFromWorkingDirectory(S) == buildFromDirectory(S, Str("."))

\* objects.cpp: the (filepath, file_hash) pairs of a tree object, line
\* after line
readTree(S, tree_hash) ==
    LET raw_content == readObject(S, tree_hash)
        null_pos == find(raw_content, NUL)
        lines == getlines(substr(raw_content, null_pos + 1))
    IN IF raw_content = Empty \/ null_pos = 0 THEN <<>>
       ELSE [i \in DOMAIN lines |->
                LET ws == firstWords(lines[i], 4) IN <<word(ws, 4), word(ws, 3)>>]

\* one flat level of file leaves; the catch (...) leaves the bare node
buildFromTreeObject(S, tree_hash) ==
    LET tree_entries == readTree(S, tree_hash)
        node == [MerkleNode(Empty, FALSE) EXCEPT
                    !.children = [i \in DOMAIN tree_entries |->
                        [MerkleNode(tree_entries[i][1], TRUE) EXCEPT
                            !.hash = tree_entries[i][2]]]]
    IN IF tree_hash = Empty \/ Throws(tree_hash) THEN MerkleNode(Empty, FALSE)
       ELSE [node EXCEPT !.hash = calculateMerkleHash(node)]

\* map1[child->path] = child: the last child of a path stays
ChildMap(children) ==
    [p \in {children[i].path : i \in DOMAIN children} |->
        children[CHOOSE i \in DOMAIN children :
                     /\ children[i].path = p
                     /\ \A j \in DOMAIN children : j > i => children[j].path # p]]

\* A plausible slip: the comparison goes below a path when either side is a
\* directory.
EitherDirectory(child1, child2) == ~child1.is_file \/ ~child2.is_file

\* if (!child1->is_file && !child2->is_file)
BothDirectories(child1, child2) == ~child1.is_file /\ ~child2.is_file

RECURSIVE compareTreesHelper(_, _, _)
RECURSIVE CompareFirst(_, _, _, _)
\* the loop over map1: deleted and modified paths, and the descent
CompareFirst(map1, map2, keys, changes) ==
    IF keys = <<>> THEN changes
    ELSE LET path == Head(keys)
             child1 == map1[path]
         IN CompareFirst(map1, map2, Tail(keys),
                IF path \notin DOMAIN map2 THEN Put(changes, path, "deleted")
                ELSE IF child1.hash # map2[path].hash
                     THEN IF BothDirectories(child1, map2[path])
                          THEN compareTreesHelper(child1, map2[path],
                                                  Put(changes, path, "modified"))
                          ELSE Put(changes, path, "modified")
                ELSE changes)

compareTreesHelper(node1, node2, changes) ==
    LET map1 == ChildMap(node1.children)
        map2 == ChildMap(node2.children)
        first == CompareFirst(map1, map2, Sorted(DOMAIN map1), changes)
        added == DOMAIN map2 \ DOMAIN map1
    IN [p \in DOMAIN first \cup added |->
           IF p \in added THEN "added" ELSE first[p]]

NoChanges == [p \in {} |-> ""]

compareTrees(tree1, tree2) == compareTreesHelper(tree1, tree2, NoChanges)

verifyTree(root_hash, tree) == calculateMerkleHash(tree) = root_hash

\* the hashes of the children other than the i-th, in child order
RECURSIVE SiblingHashes(_, _, _)
SiblingHashes(children, i, j) ==
    IF j > Len(children) THEN <<>>
    ELSE (IF i # j /\ children[j].hash # Empty THEN <<children[j].hash>> ELSE <<>>)
         \o SiblingHashes(children, i, j + 1)

RECURSIVE getMerkleProofHelper(_, _, _)
RECURSIVE ProofAmong(_, _, _, _)
\* the loop over the children from the i-th on
ProofAmong(node, filepath, proof, i) ==
    IF i > Len(node.children) THEN [found |-> FALSE, proof |-> proof]
    ELSE LET r == getMerkleProofHelper(node.children[i], filepath, proof) IN
         IF r.found
         THEN [found |-> TRUE,
               proof |-> r.proof \o SiblingHashes(node.children, i, 1)]
         ELSE ProofAmong(node, filepath, proof, i + 1)

getMerkleProofHelper(node, filepath, proof) ==
    IF node.is_file /\ node.path = filepath THEN [found |-> TRUE, proof |-> proof]
    ELSE IF ~node.is_file THEN ProofAmong(node, filepath, proof, 1)
    ELSE [found |-> FALSE, proof |-> proof]

getMerkleProof(tree, filepath) == getMerkleProofHelper(tree, filepath, <<>>).proof

\* the values current_hash may end with.  Which of two SHA-1 digests is the
\* smaller string is not known here, so each fold keeps both orders.
RECURSIVE FoldOutcomes(_, _)
FoldOutcomes(current_hash, proof) ==
    IF proof = <<>> THEN {current_hash}
    ELSE UNION {FoldOutcomes(calculateHash(combined), Tail(proof)) :
                   combined \in {current_hash \o Head(proof),
                                 Head(proof) \o current_hash}}

\* the results the call may give: one for each order of the digests
verifyMerkleProof(filepath, file_hash, proof, root_hash) ==
    {current_hash = root_hash : current_hash \in FoldOutcomes(file_hash, proof)}

(***************************************************************************)
(* Merkle trees of the working directory.  Files are written and removed   *)
(* at a, d and d/x (d is a file at one time and a directory at another), a *)
(* process builds up to two trees, one after the other, and a leaf of a    *)
(* tree it holds may be given another digest.                              *)
(***************************************************************************)
MerklePaths == {Str("a"), Str("d"), <<Ch("d"), Slash, Ch("x")>>}

\* a file cannot stand where a directory stands, nor below a file
Writable(S, p) ==
    \A q \in DOMAIN S.work :
        /\ ~StartsWith(q, p \o <<Slash>>)
        /\ ~StartsWith(p, q \o <<Slash>>)

MerkleEdit ==
    \E p \in MerklePaths, c \in Contents :
        /\ Writable(Disk, p)
        /\ p = Str("d") => c = Str("x")
        /\ Apply([Disk EXCEPT !.work = Put(work, p, c)])

MerkleRemove ==
    \E p \in DOMAIN work : Apply([Disk EXCEPT !.work = Remove(work, {p})])

\* the digest a leaf is given in place of its own
OtherDigest == calculateHash(BlobBytes(Garbage))

\* the node with the hash field of one leaf below it replaced, and every
\* other field, the hash fields of the directories above included, as it was
RECURSIVE Tampered(_)
Tampered(node) ==
    IF node.is_file THEN {[node EXCEPT !.hash = OtherDigest]}
    ELSE UNION {{[node EXCEPT !.children[i] = c] : c \in Tampered(node.children[i])} :
                   i \in DOMAIN node.children}

\* the digest of the node when every directory below it is combined anew
\* from its children, down to the leaves
RECURSIVE DeepHash(_)
DeepHash(node) ==
    IF node.is_file THEN node.hash
    ELSE calculateMerkleHash(
             [node EXCEPT !.children =
                 [i \in DOMAIN node.children |->
                     [node.children[i] EXCEPT !.hash = DeepHash(node.children[i])]]])

MerkleBuild ==
    /\ Len(trees) < 2
    /\ trees' = Append(trees, buildFromWorkingDirectory(Disk))
    /\ Store(Disk)
    /\ procs' = procs

\* a leaf of a tree that is still as it was built changes its digest
MerkleTamper ==
    /\ \E i \in DOMAIN trees :
           /\ DeepHash(trees[i]) = trees[i].hash
           /\ \E t \in Tampered(trees[i]) : trees' = [trees EXCEPT ![i] = t]
    /\ Store(Disk)
    /\ procs' = procs

MerkleDrop ==
    /\ trees # <<>>
    /\ trees' = <<>>
    /\ Store(Disk)
    /\ procs' = procs

NextMerkle ==
    \/ MerkleEdit
    \/ MerkleRemove
    \/ MerkleBuild
    \/ MerkleTamper
    \/ MerkleDrop

SpecMerkle == InitMerge /\ [][NextMerkle]_vars

\* C25: verifyTree(expected, tree), with expected the digest the tree was
\* given when it was built, is true only when the digests of the leaves
\* below the tree still combine to expected: a leaf whose digest differs
\* makes it false, whatever digests the directories in between still carry.
C25_VerifyRecomputes ==
    \A i \in DOMAIN trees :
        verifyTree(trees[i].hash, trees[i]) => DeepHash(trees[i]) = trees[i].hash

\* what the comparison of one level reports
LevelChanges(map1, map2) ==
    {<<p, "deleted">> : p \in DOMAIN map1 \ DOMAIN map2}
        \cup {<<p, "added">> : p \in DOMAIN map2 \ DOMAIN map1}
        \cup {<<p, "modified">> :
                 p \in {q \in DOMAIN map1 \cap DOMAIN map2 : map1[q].hash # map2[q].hash}}

\* the levels compared: the two nodes, and below every path that both hold
\* as directories with different digests
RECURSIVE Classified(_, _)
Classified(node1, node2) ==
    LET map1 == ChildMap(node1.children)
        map2 == ChildMap(node2.children)
    IN LevelChanges(map1, map2)
       \cup UNION {Classified(map1[p], map2[p]) :
                      p \in {q \in DOMAIN map1 \cap DOMAIN map2 :
                                /\ map1[q].hash # map2[q].hash
                                /\ ~map1[q].is_file
                                /\ ~map2[q].is_file}}

\* the paths that one tree holds as a file and the other as a directory
FileAgainstDirectory(node1, node2) ==
    LET map1 == ChildMap(node1.children)
        map2 == ChildMap(node2.children)
    IN {p \in DOMAIN map1 \cap DOMAIN map2 : map1[p].is_file # map2[p].is_file}

\* C26: compareTrees reports, level by level, a path only in the first tree
\* as deleted, one only in the second as added, one in both with different
\* digests as modified and one with equal digests not at all; it goes below
\* a modified path only when both sides are directories, so a path that is
\* a file on one side and a directory on the other is modified and nothing
\* below it is reported.
C26_DiffClassifies ==
    Len(trees) = 2 =>
        LET changes == compareTrees(trees[1], trees[2]) IN
        /\ {<<p, changes[p]>> : p \in DOMAIN changes} = Classified(trees[1], trees[2])
        /\ \A p \in FileAgainstDirectory(trees[1], trees[2]) :
               /\ p \in DOMAIN changes
               /\ changes[p] = "modified"
               /\ \A q \in DOMAIN changes : ~StartsWith(q, p \o <<Slash>>)

\* d is a file in the first tree and a directory with a file in the second,
\* and a was changed in between
C26_Witness ==
    /\ Len(trees) = 2
    /\ FileAgainstDirectory(trees[1], trees[2]) # {}
    /\ \E p \in DOMAIN compareTrees(trees[1], trees[2]) :
           compareTrees(trees[1], trees[2])[p] = "modified"
           /\ p \notin FileAgainstDirectory(trees[1], trees[2])

\* the file leaves of a tree
RECURSIVE Leaves(_)
Leaves(node) ==
    IF node.is_file THEN {node}
    ELSE UNION {Leaves(node.children[i]) : i \in DOMAIN node.children}

\* C27: for every file leaf of a tree built from the working directory,
\* verifyMerkleProof(path, leaf digest, getMerkleProof(tree, path), root
\* digest) is true.
C27_ProofRoundTrip ==
    \A i \in DOMAIN trees :
        DeepHash(trees[i]) = trees[i].hash =>
            \A leaf \in Leaves(trees[i]) :
                TRUE \in verifyMerkleProof(leaf.path, leaf.hash,
                                           getMerkleProof(trees[i], leaf.path),
                                           trees[i].hash)

(***************************************************************************)
(* Merkle trees of stored tree objects.  Three files are staged, stashed   *)
(* and committed; the name of the third holds a ':' and a ';'.  A process  *)
(* builds up to two trees from the tree objects and may reorder the        *)
(* children list of a tree it holds.                                       *)
(***************************************************************************)
\* the file name  a:<digest of the blob of "x">;b
LongName ==
    Str("a") \o <<Ch(":")>> \o calculateHash(BlobBytes(Str("x"))) \o <<Ch(";")>>
        \o Str("b")

\* the files of the working directory, each with its content
DigestFiles == (Str("a") :> Str("x")) @@ (Str("b") :> Str("y")) @@ (LongName :> Str("y"))

\* the directory after  init , with the three files written
InitDigest ==
    LET S == [handleInit(EmptyDir) EXCEPT !.work = DigestFiles] IN
    /\ repo = S.repo
    /\ heads = S.heads
    /\ head = S.head
    /\ refs = S.refs
    /\ index = S.index
    /\ objects = S.objects
    /\ work = S.work
    /\ stash = S.stash
    /\ stashDir = S.stashDir
    /\ now = 0
    /\ procs = Idle
    /\ trees = <<>>

DigestAdd == \E p \in DOMAIN DigestFiles : Apply(handleAdd(Disk, p))

DigestBuild ==
    /\ Len(trees) < 2
    /\ \E tree_hash \in Trees(objects) :
           trees' = Append(trees, buildFromTreeObject(Disk, tree_hash))
    /\ Store(Disk)
    /\ procs' = procs

\* two neighbours of a children list change places
DigestShuffle ==
    /\ \E i \in DOMAIN trees :
           \E k \in 1..(Len(trees[i].children) - 1) :
               trees' = [trees EXCEPT ![i].children =
                            [j \in DOMAIN trees[i].children |->
                                IF j = k THEN trees[i].children[k + 1]
                                ELSE IF j = k + 1 THEN trees[i].children[k]
                                ELSE trees[i].children[j]]]
    /\ Store(Disk)
    /\ procs' = procs

NextDigest ==
    \/ DigestAdd
    \/ Commit
    \/ StashSave
    \/ DigestBuild
    \/ DigestShuffle
    \/ MerkleDrop

SpecDigest == InitDigest /\ [][NextDigest]_vars

\* the (path, digest) pairs of the children of a node
Pairs(node) == {<<node.children[i].path, node.children[i].hash>> : i \in DOMAIN node.children}

\* C24: two directory nodes have the same Merkle digest exactly when their
\* children give the same set of (path, digest) pairs: the order of the
\* children lists does not count, and different sets give different
\* digests.
C24_DigestOfPairs ==
    \A i, j \in DOMAIN trees :
        (Pairs(trees[i]) = Pairs(trees[j]))
            <=> (calculateMerkleHash(trees[i]) = calculateMerkleHash(trees[j]))

\* the half of C24 that holds: equal sets of pairs, equal digests
DigestOrderFree ==
    \A i, j \in DOMAIN trees :
        (Pairs(trees[i]) = Pairs(trees[j]))
            => (calculateMerkleHash(trees[i]) = calculateMerkleHash(trees[j]))

(***************************************************************************)
(* The stash and the clock.  One file is written, staged, stashed and      *)
(* popped while the clock goes from one second to the next.                *)
(***************************************************************************)
MaxTime == 2

\* a second passes
Tick ==
    /\ now < MaxTime
    /\ now' = now + 1
    /\ UNCHANGED <<repo, heads, head, refs, index, objects, work, stash,
                   stashDir, procs, trees>>

NextClock ==
    \/ Tick
    \/ EditFile
    \/ Add
    \/ StashSave
    \/ StashPop

SpecClock == InitMerge /\ [][NextClock]_vars

\* the mapping a stash entry holds
StashedMap(S, id) == ParseIndexLines(getlines(S.stash[id]), NoMap)

\* the identifier of the entry saved last: the one of the latest second
Newest(S) ==
    to_string(CHOOSE t \in 0..MaxTime :
                  /\ to_string(t) \in DOMAIN S.stash
                  /\ \A u \in 0..MaxTime : to_string(u) \in DOMAIN S.stash => u <= t)

\* C28: stash save on a non-empty index stores the mapping of the index as
\* a stash entry and leaves the index empty; stash pop takes the newest
\* entry, makes its mapping the index and removes the entry; so a pop that
\* follows a save gives the index the mapping it had before the save.
C28_StashRoundTrip ==
    LET idx == Persisted(Disk)
        S1 == handleStashSave(Disk, now)
        S2 == handleStashPop(S1)
        P1 == handleStashPop(Disk)
    IN /\ idx # NoMap =>
              /\ S1.ret \in DOMAIN S1.stash
              /\ StashedMap(S1, S1.ret) = idx
              /\ Persisted(S1) = NoMap
              /\ Persisted(S2) = idx
              /\ S2.stash = Remove(S1.stash, {S1.ret})
       /\ DOMAIN stash # {} =>
              /\ P1.ret = Newest(Disk)
              /\ Persisted(P1) = StashedMap(Disk, Newest(Disk))
              /\ P1.stash = Remove(stash, {Newest(Disk)})

\* two entries of different seconds with different mappings are stashed,
\* and the index holds a mapping
C28_Witness ==
    /\ Persisted(Disk) # NoMap
    /\ \E i, j \in DOMAIN stash :
           i # j /\ StashedMap(Disk, i) # StashedMap(Disk, j)

\* C29: a stash save on a non-empty index takes an identifier that no
\* stash entry has: the entries become one more and every earlier entry
\* stays as it was, also when the save before it ran in the same second.
C29_FreshStashId ==
    LET S1 == handleStashSave(Disk, now) IN
    Persisted(Disk) # NoMap =>
        /\ S1.ret \notin DOMAIN stash
        /\ Cardinality(DOMAIN S1.stash) = Cardinality(DOMAIN stash) + 1
        /\ \A id \in DOMAIN stash : id \in DOMAIN S1.stash /\ S1.stash[id] = stash[id]

(***************************************************************************)
(* init                                                                    *)
(***************************************************************************)
\* the bytes  ref: refs/heads/main\n
UnbornMain == <<Ch("ref:"), SP, Ch("refs/heads/"), Ch("main"), NL>>

\* C30: init in a directory that holds no .minigit leaves HEAD with exactly
\* "ref: refs/heads/main\n", no object, no branch ref and no commit for HEAD
\* to resolve to, and touches nothing else; init in a directory that holds
\* a .minigit changes nothing.
C30_InitUnborn ==
    LET S1 == handleInit(Disk) IN
    /\ ~repo =>
           /\ S1.repo /\ S1.heads
           /\ S1.head = File(UnbornMain)
           /\ S1.objects = NoMap
           /\ S1.refs = NoMap
           /\ getHeadCommit(S1) = Empty
           /\ getCurrentBranch(S1) = Str("main")
           /\ S1.index = NoFile /\ S1.stash = NoMap /\ ~S1.stashDir
           /\ S1.work = work
    /\ repo => S1 = Disk

\* init is run in a repository whose HEAD no longer names main
C30_Witness ==
    /\ repo
    /\ head # NoFile
    /\ Slurp(head) # UnbornMain
    /\ handleInit(Disk) = Disk

(***************************************************************************)
(* switch and checkout: the index and the working directory afterwards     *)
(***************************************************************************)
\* the digest a target of checkout resolves to: the tip of the branch of
\* that name, the target itself otherwise
Resolved(S, target) ==
    IF target \in DOMAIN S.refs THEN getline(S.refs[target]) ELSE target

\* S1 is S rewritten to the snapshot of the commit: the index maps every
\* path of the snapshot to its blob digest and nothing else, every path of
\* the snapshot is a working file with the content of its blob, and the
\* files the old index tracked that the snapshot lacks are gone
Rewritten31(S, S1, commit_hash) ==
    LET files == FilesOf(S, commit_hash)
        old == readIndex(S, FreshCache).map
        new == readIndex(S1, FreshCache).map
    IN /\ DOMAIN new = DOMAIN files
       /\ \A p \in DOMAIN files :
              /\ new[p].hash = files[p]
              /\ p \in DOMAIN S1.work
              /\ S1.work[p] = readBlobContent(S, files[p])
       /\ \A p \in DOMAIN old \ DOMAIN files : p \notin DOMAIN S1.work

\* C31: after a successful switch <branch> or checkout <ref> the index is
\* the snapshot of the target commit, every path of the snapshot is in the
\* working directory with the content of its blob, and the files the old
\* index tracked that the snapshot lacks are removed.
C31_TargetSnapshot ==
    /\ \A b \in DOMAIN refs :
           getline(refs[b]) \in Commits(objects)
               => Rewritten31(Disk, handleSwitch(Disk, b), getline(refs[b]))
    /\ \A t \in DOMAIN refs \cup Commits(objects) :
           Resolved(Disk, t) \in Commits(objects)
               => Rewritten31(Disk, handleCheckout(Disk, t), Resolved(Disk, t))

\* the index tracks a file that the snapshot of some branch lacks, and the
\* working directory holds a file whose content differs from the snapshot
\* of some stored commit: a switch or a checkout from here removes and
\* rewrites files
C31_Witness ==
    /\ \E b \in DOMAIN refs :
           /\ getline(refs[b]) \in Commits(objects)
           /\ DOMAIN readIndex(Disk, FreshCache).map
                  \ DOMAIN FilesOf(Disk, getline(refs[b])) # {}
           /\ handleSwitch(Disk, b).work # work
    /\ \E c \in Commits(objects) :
           \E p \in DOMAIN FilesOf(Disk, c) :
               /\ p \in DOMAIN work
               /\ work[p] # readBlobContent(Disk, FilesOf(Disk, c)[p])

(***************************************************************************)
(* A working directory where a file and a directory may want one name:     *)
(* the file d and the file d/x.                                            *)
(***************************************************************************)
ClashPaths == {Str("d"), <<Ch("d"), Slash, Ch("x")>>}

\* the user writes a file where the file system lets one be written
ClashEdit ==
    \E p \in ClashPaths :
        /\ Writable(Disk, p)
        /\ Apply([Disk EXCEPT !.work = Put(work, p, Str("x"))])

ClashAdd == \E p \in DOMAIN work : Apply(handleAdd(Disk, p))

ClashCheckout ==
    \E target \in MergeBranches \cup Commits(objects) :
        Apply(handleCheckout(Disk, target))

NextClash ==
    \/ ClashEdit
    \/ MerkleRemove
    \/ ClashAdd
    \/ Commit
    \/ MergeBranch
    \/ MergeSwitch
    \/ ClashCheckout

SpecClash == InitMerge /\ [][NextClash]_vars

\* the switch or checkout ran to its end: HEAD names the target
Switched(S1, b) ==
    getline(Slurp(S1.head)) = RefPrefix \o HeadsPrefix \o b

\* C31, over working directories that hold directories: whenever switch or
\* checkout of a branch runs to its end and reports the switch, the index
\* and the working directory are those of the snapshot of the tip.
C31_TargetSnapshotNested ==
    \A b \in DOMAIN refs :
        /\ (getline(refs[b]) \in Commits(objects)
                /\ handleSwitch(Disk, b).ret # Empty)
               => Rewritten31(Disk, handleSwitch(Disk, b), getline(refs[b]))
        /\ (getline(refs[b]) \in Commits(objects)
                /\ handleCheckout(Disk, b).ret # Empty)
               => Rewritten31(Disk, handleCheckout(Disk, b), getline(refs[b]))

\* C32: commit while HEAD is detached at the commit d stores a commit whose
\* only parent is d, leaves HEAD detached and holding the digest of the new
\* commit, and changes no branch ref.
C32_DetachedCommit ==
    \A m \in Messages :
        LET d == getline(Slurp(head))
            S1 == handleCommit(Disk, m, now)
        IN (isDetachedHead(Disk) /\ d \in Commits(objects)) =>
               /\ S1.ret \in Commits(S1.objects)
               /\ Parents(S1, S1.ret) = <<d>>
               /\ isDetachedHead(S1)
               /\ getline(Slurp(S1.head)) = S1.ret
               /\ S1.refs = refs

\* HEAD is detached at a commit that has a parent while a branch exists: a
\* commit was made on a detached HEAD, or a second commit was checked out
C32_Witness ==
    /\ isDetachedHead(Disk)
    /\ getline(Slurp(head)) \in Commits(objects)
    /\ Parents(Disk, getline(Slurp(head))) # <<>>
    /\ \A b \in DOMAIN refs : getline(refs[b]) # getline(Slurp(head))

(***************************************************************************)
(* Referential integrity                                                   *)
(***************************************************************************)
\* every branch and a detached HEAD hold the digest of a stored commit;
\* every stored commit names a stored tree and stored commits as parents;
\* every stored tree and the index name stored blobs
Referential(S) ==
    /\ \A b \in DOMAIN S.refs : getline(S.refs[b]) \in Commits(S.objects)
    /\ isDetachedHead(S) => getline(Slurp(S.head)) \in Commits(S.objects)
    /\ \A c \in Commits(S.objects) :
           /\ readCommit(S, c).tree \in Trees(S.objects)
           /\ \A i \in DOMAIN Parents(S, c) :
                  Parents(S, c)[i] \in Commits(S.objects)
    /\ \A t \in Trees(S.objects) :
           \A p \in DOMAIN readTreeToMap(S, t) :
               readTreeToMap(S, t)[p] \in Blobs(S.objects)
    /\ \A p \in DOMAIN readIndex(S, FreshCache).map :
           readIndex(S, FreshCache).map[p].hash \in Blobs(S.objects)

\* the bytes of a file that read as the header of a commit
ForgedContent == <<Ch("tree"), SP, Ch("zz"), NL>>

\* the user writes the file with ordinary bytes or with those
ForgedEdit ==
    \E p \in Paths, c \in {Str("x"), ForgedContent} :
        Apply([Disk EXCEPT !.work = Put(work, p, c)])

NextForged ==
    \/ ForgedEdit
    \/ Add
    \/ Commit
    \/ Branch
    \/ Switch
    \/ Checkout

SpecForged == InitMerge /\ [][NextForged]_vars

\* C33: in every state reached by commands alone, with no failed write and
\* no file of .minigit altered from outside, every branch and a detached
\* HEAD hold the digest of a stored commit, every stored commit names a
\* stored tree and stored commits as parents, and every stored tree and the
\* index name stored blobs.
C33_ReferentialIntegrity == Referential(Disk)

\* the path -> blob digest mapping the index file holds
IndexMapping(S) ==
    [p \in DOMAIN readIndex(S, FreshCache).map |->
        readIndex(S, FreshCache).map[p].hash]

\* C34: a commit that succeeds leaves the index file and the working
\* directory as they were, and right after it the snapshot of the head
\* commit is the mapping of the index, so repositoryHasChanges() is false.
C34_CommitCleans ==
    \A m \in Messages :
        LET S1 == handleCommit(Disk, m, now) IN
        S1.ret # Empty =>
            /\ S1.index = index
            /\ S1.work = work
            /\ getHeadCommit(S1) = S1.ret
            /\ FilesOf(S1, getHeadCommit(S1)) = IndexMapping(S1)
            /\ ~repositoryHasChanges(S1)

\* a commit was made from an index that holds an entry, and the index has
\* not changed since: HEAD resolves to a commit whose snapshot is not empty
\* and repositoryHasChanges() is false
C34_Witness ==
    /\ getHeadCommit(Disk) \in Commits(objects)
    /\ FilesOf(Disk, getHeadCommit(Disk)) # NoMap
    /\ ~repositoryHasChanges(Disk)
    /\ \E m \in Messages : handleCommit(Disk, m, now).ret # Empty

(***************************************************************************)
(* verify-integrity as a loop: one pass of the while loop of               *)
(* verifyRepositoryIntegrity is one step.  The command runs on a           *)
(* repository that other commands, and damage from outside, have left.     *)
(***************************************************************************)
\* no run of a chain is longer than the commits there can be; the loop of
\* the model stops here should it ever get that far
MaxWalk == MaxCommits + 3

\* the local state of the command: current_hash, and the commits handed to
\* verifyCommit so far
Walk(current_hash, visited, pc) ==
    [cmd |-> "verify-integrity", arg |-> current_hash, pc |-> pc,
     val |-> visited, jobs |-> <<>>]

\* A plausible slip: the loop never moves to the parent.
WalkStay(S, current_hash) == current_hash

\* current_hash = commit.parent
WalkParent(S, current_hash) == readCommit(S, current_hash).parent

\* what one pass of the loop finds at current_hash: whether verifyCommit
\* returns true, and the parent the loop would move to
PassAt(S, current_hash) ==
    [ok |-> ~VerifyThrows(S, current_hash) /\ verifyCommit(S, current_hash),
     parent |-> WalkParent(S, current_hash)]

\* No file changes while the command runs, so what a pass finds at a digest
\* is settled when the command starts; a digest that names no object file
\* fails in verifyCommit.
PassesOf(S) ==
    [c \in DOMAIN S.objects \cup {getHeadCommit(S)} |-> PassAt(S, c)]

\* head_commit = getHeadCommit(); the function returns at once when it is empty
WalkStart ==
    /\ procs = Idle
    /\ procs' = [base |-> <<PassesOf(Disk)>>,
                 ps |-> <<Walk(getHeadCommit(Disk), <<>>,
                               IF getHeadCommit(Disk) = Empty THEN "done"
                               ELSE "loop")>>]
    /\ Store(Disk)
    /\ trees' = trees

\* while (!current_hash.empty()): verifyCommit, then the parent
WalkPass(passes, L) ==
    IF L.arg = Empty THEN Done(L)
    ELSE IF L.arg \notin DOMAIN passes \/ ~passes[L.arg].ok
    THEN [Done(L) EXCEPT !.val = Append(L.val, L.arg)]
    ELSE [L EXCEPT !.arg = passes[L.arg].parent, !.val = Append(L.val, L.arg)]

WalkStep ==
    /\ Len(procs.ps) = 1
    /\ procs.ps[1].cmd = "verify-integrity"
    /\ procs.ps[1].pc = "loop"
    /\ Len(procs.ps[1].val) < MaxWalk
    /\ procs' = [procs EXCEPT !.ps[1] = WalkPass(procs.base[1], procs.ps[1])]
    /\ Store(Disk)
    /\ trees' = trees

\* the repository changes between two runs of the command
WalkRepo == procs = Idle /\ NextVerify

NextWalk ==
    \/ WalkRepo
    \/ WalkStart
    \/ WalkStep
    \/ Reap

\* the process gets the processor until it ends
SpecWalk == InitMerge /\ [][NextWalk]_vars /\ WF_vars(WalkStep)

Walking == procs.ps # <<>> /\ procs.ps[1].pc = "loop"

Walked == procs.ps # <<>> /\ procs.ps[1].pc = "done"

\* the commits handed to verifyCommit are all different, and the one the
\* loop holds is none of them
NoRevisit ==
    procs.ps # <<>> =>
        LET visited == procs.ps[1].val IN
        /\ \A i, j \in DOMAIN visited : visited[i] = visited[j] => i = j
        /\ Walking => \A i \in DOMAIN visited : visited[i] # procs.ps[1].arg

\* C35: the walk of verifyRepositoryIntegrity ends in every state of the
\* repository that commands and damage to object files can leave: from
\* HEAD on it hands no commit to verifyCommit twice, and after finitely
\* many passes it stands at a commit without parent or at an object that
\* fails.
C35_WalkTerminates == []NoRevisit /\ (Walking ~> Walked)

\* a walk has ended after two commits, the second of which has no parent
C35_Witness ==
    /\ Walked
    /\ Len(procs.ps[1].val) = 2
    /\ procs.ps[1].arg = Empty

(***************************************************************************)
(* The commit that follows a merge with conflicts.  One file is committed  *)
(* with different contents on two branches, the branches are merged, and   *)
(* what the merge staged is committed.                                     *)
(***************************************************************************)
\* the index holds the blob of a file with conflict markers
Conflicted(S) ==
    \E p \in DOMAIN readIndex(S, FreshCache).map :
        LET content == readBlobContent(S, readIndex(S, FreshCache).map[p].hash) IN
        content # Empty /\ Head(content) = Ch("<<<<<<<")

\* commit -m <message> after a merge that reported conflicts; it may be the
\* commit after the MaxCommits that built the two branches
FollowCommit ==
    /\ Conflicted(Disk)
    /\ \E m \in Messages :
           LET S == handleCommit(Disk, m, now) IN WithinMerged(S) /\ Apply(S)

NextFollow ==
    \/ EditFile
    \/ Add
    \/ Commit
    \/ MergeBranch
    \/ MergeSwitch
    \/ MergeMerge
    \/ FollowCommit

SpecFollow == InitMerge /\ [][NextFollow]_vars

\* C36: the commit made from what a conflicted merge of b staged has one
\* parent, the tip the current branch had, and becomes the tip of the
\* current branch; the tip of b is no parent of it.  Nothing records the
\* merge: merging b again compares the snapshot of that commit with the
\* snapshot of b, finds the same paths in conflict and makes no commit.
C36_FollowUpCommit ==
    \A b \in MergeBranches, m \in Messages :
        LET current_branch == getCurrentBranch(Disk)
            current_commit == getHeadCommit(Disk)
            merge_commit == getRefHash(Disk, HeadsPrefix \o b)
            C == FilesOf(Disk, current_commit)
            T == TipFiles(Disk, b)
            S1 == handleMerge(Disk, b, now)
            S2 == handleCommit(S1, m, now)
            new == S2.ret
            S3 == handleMerge(S2, b, now)
        IN (Accepted(Disk, b) /\ ConflictPaths(C, T) # {})
           => /\ new \in Commits(S2.objects) \ Commits(objects)
              /\ Parents(S2, new) = <<current_commit>>
              /\ merge_commit # current_commit
              /\ getRefHash(S2, HeadsPrefix \o current_branch) = new
              /\ getRefHash(S2, HeadsPrefix \o b) = merge_commit
              /\ FilesOf(S2, new) = IndexMapping(S1)
              /\ ConflictPaths(FilesOf(S2, new), TipFiles(S2, b)) = ConflictPaths(C, T)
              /\ Commits(S3.objects) = Commits(S2.objects)
              /\ S3.refs = S2.refs

\* the tip of the current branch has one parent and its snapshot holds a
\* file with conflict markers, while another branch has a tip that is not
\* that parent: a conflicted merge was committed
C36_Witness ==
    LET tip == getHeadCommit(Disk)
        current_branch == getCurrentBranch(Disk)
    IN /\ current_branch \in DOMAIN refs
       /\ Len(Parents(Disk, tip)) = 1
       /\ \E p \in DOMAIN FilesOf(Disk, tip) :
              LET content == readBlobContent(Disk, FilesOf(Disk, tip)[p]) IN
              content # Empty /\ Head(content) = Ch("<<<<<<<")
       /\ \E b \in DOMAIN refs \ {current_branch} :
              /\ getline(refs[b]) # Parents(Disk, tip)[1]
              /\ getline(refs[b]) # tip

(***************************************************************************)
(* Merges of snapshots that share no path.  Two files, each with one       *)
(* content; a third commit lets each branch hold a file the other lacks.   *)
(***************************************************************************)
UnionEdit ==
    \E p \in TipPaths : Apply([Disk EXCEPT !.work = Put(work, p, Str("x"))])

UnionCommit ==
    \E m \in Messages :
        LET S == handleCommit(Disk, m, now) IN WithinMerged(S) /\ Apply(S)

\* a merge may add its commit to those
UnionMerge ==
    \E b \in MergeBranches :
        LET S == handleMerge(Disk, b, now) IN
        Cardinality(Commits(S.objects)) <= MaxCommits + 2 /\ Apply(S)

NextUnion ==
    \/ UnionEdit
    \/ TipAdd
    \/ UnionCommit
    \/ MergeBranch
    \/ MergeSwitch
    \/ UnionMerge

SpecUnion == InitMerge /\ [][NextUnion]_vars

\* the tree of the tip of branch b
TipTree(S, b) == readCommit(S, getRefHash(S, HeadsPrefix \o b)).tree

\* C37: when the snapshots at the tips of two branches agree on every path
\* both hold, merging the second into the first and merging the first into
\* the second make merge commits with one tree digest, the tree of the
\* union of the two snapshots.
C37_MergeSymmetric ==
    \A b \in MergeBranches :
        LET current_branch == getCurrentBranch(Disk)
            C == FilesOf(Disk, getHeadCommit(Disk))
            T == TipFiles(Disk, b)
            S1 == handleMerge(Disk, b, now)
            S2 == handleMerge(handleSwitch(Disk, b), current_branch, now)
        IN (Accepted(Disk, b) /\ ConflictPaths(C, T) = {})
           => /\ TipTree(S1, current_branch) \in Trees(S1.objects)
              /\ TipTree(S2, b) = TipTree(S1, current_branch)
              /\ Len(Parents(S1, getRefHash(S1, HeadsPrefix \o current_branch))) = 2
              /\ Len(Parents(S2, getRefHash(S2, HeadsPrefix \o b))) = 2
              /\ readTreeToMap(S1, TipTree(S1, current_branch)) = T @@ C

\* the current tip is a merge commit whose parents hold different snapshots,
\* neither of which holds every path of the other
C37_Witness ==
    LET tip == getHeadCommit(Disk)
        ps == Parents(Disk, tip)
    IN /\ getCurrentBranch(Disk) \in DOMAIN refs
       /\ Len(ps) = 2
       /\ DOMAIN FilesOf(Disk, ps[1]) \ DOMAIN FilesOf(Disk, ps[2]) # {}
       /\ DOMAIN FilesOf(Disk, ps[2]) \ DOMAIN FilesOf(Disk, ps[1]) # {}
       /\ FilesOf(Disk, tip) = FilesOf(Disk, ps[2]) @@ FilesOf(Disk, ps[1])

\* C38: for every branch whose tip is a stored commit, switch <branch> and
\* checkout <branch>, started in the same state, end in the same state:
\* the same bytes in HEAD, the same index file, the same working
\* directory, the same refs and the same object store.
C38_SwitchIsCheckout ==
    \A b \in DOMAIN refs :
        LET S1 == handleSwitch(Disk, b)
            S2 == handleCheckout(Disk, b)
        IN getline(refs[b]) \in Commits(objects) =>
               /\ S1.head = S2.head
               /\ S1.index = S2.index
               /\ S1.work = S2.work
               /\ S1.refs = S2.refs
               /\ S1.objects = S2.objects

\* some branch is not the current one, and going over to it rewrites HEAD,
\* the index and a working file
C38_Witness ==
    \E b \in DOMAIN refs :
        LET S1 == handleSwitch(Disk, b) IN
        /\ getline(refs[b]) \in Commits(objects)
        /\ S1.head # head
        /\ S1.index # index
        /\ \E p \in DOMAIN S1.work : p \notin DOMAIN work \/ S1.work[p] # work[p]

(***************************************************************************)
(* switch and checkout that fail                                           *)
(***************************************************************************)
\* handleCheckout does not return: hash.substr(2) in readObject, fs::remove
\* or fs::create_directories throws, nothing catches it, and the process is
\* ended by std::terminate
CheckoutThrows(S, target) ==
    LET is_branch == BranchPathExists(S, target)
        commit_hash == IF is_branch
                       THEN (IF target \in DOMAIN S.refs
                             THEN getline(S.refs[target]) ELSE Empty)
                       ELSE target
        commit == readCommit(S, commit_hash)
        files == readTreeToMap(S, commit.tree)
        idx == readIndex(S, FreshCache).map
        L == CheckoutFiles([disk |-> RemoveTracked(S, idx),
                            thrown |-> RemoveThrows(S, idx)],
                           files, Sorted(DOMAIN files))
    IN IF Throws(commit_hash) THEN TRUE
       ELSE IF commit.tree = Empty THEN FALSE
       ELSE IF Throws(commit.tree) THEN TRUE
       ELSE L.thrown

\* what checkout may be asked for: a branch name, the name of an object
\* file, and two strings that are neither, one of them a single character
CheckoutTargets ==
    BranchNames \cup DOMAIN objects \cup {Garbage, Str("zz"), Empty}

\* the targets that name neither a branch nor a stored commit
FailingTargets == (CheckoutTargets \ DOMAIN refs) \ Commits(objects)

\* checkout of a target that must fail leaves every file as it was
FailedCheckoutKeeps ==
    \A t \in FailingTargets : SameState(handleCheckout(Disk, t))

\* checkout of a target that must fail returns to its caller
FailedCheckoutReturns ==
    \A t \in FailingTargets : ~CheckoutThrows(Disk, t)

\* switch to a branch that does not exist leaves every file as it was
FailedSwitchKeeps ==
    \A b \in (BranchNames \cup {Garbage, Empty}) \ DOMAIN refs :
        SameState(handleSwitch(Disk, b))

\* C39: switch to a branch that does not exist, and checkout of a target
\* that is neither a branch nor the digest of a stored commit, return to
\* the caller and leave HEAD, every ref, the index and the working
\* directory unchanged.
C39_FailedChangesNothing ==
    /\ FailedSwitchKeeps
    /\ FailedCheckoutKeeps
    /\ FailedCheckoutReturns

====
